---- MODULE Spec2Model ----
(***************************************************************************)
(* Model of the StateManager of finresearch_agent (state.py): the active   *)
(* ResearchState, the per-thread in-memory checkpoint history, the durable *)
(* checkpoint store (directory of JSON files or cache keys), and the       *)
(* operations init_state, update_state, save_checkpoint, rollback,         *)
(* get_state, get_evidence_chain, list_checkpoints and load_checkpoint.    *)
(*                                                                         *)
(* Python strings that the code takes apart or rewrites (thread ids,       *)
(* checkpoint ids, file names) are sequences of one-character strings, so  *)
(* that str.replace and the f-strings are computed, not assumed.  Other    *)
(* strings are TLA+ strings.  Python None is NoneVal.                      *)
(***************************************************************************)
EXTENDS Integers, Sequences, FiniteSets, TLC

VARIABLES
    storage_backend,  \* "dir" when self._storage_backend is a Path, "none" when None
    cache_backend,    \* TRUE when self._cache_backend is given
    current_state,    \* self._current_state: NoneVal or a ResearchState
    checkpoints,      \* self._checkpoints: thread_id -> sequence of ResearchState
    files,            \* the storage directory: file name -> JSON document
    cache_store,      \* the cache backend's store: key -> [expires_at, value]
    now,              \* the wall clock read by datetime.now()
    uuid_count,       \* how many uuid4() values have been drawn
    ret,              \* what the last call returned or raised
    aliases,          \* fields of the active state object the caller holds a reference to
    n_updates,        \* history: completed update_state calls since init_state (-1 after a rollback)
    linear,           \* history: no rollback, re-initialisation or metadata overwrite so far
    prev_step,        \* history: step_index of the active state before the last call (-1: none)
    pc,               \* OS thread -> position inside update_state
    lock_owner,       \* self._lock: the OS thread holding the RLock, 0 when free
    lock_count,       \* self._lock: re-entrancy depth
    state_dict,       \* OS thread -> the local state_dict of its update_state call
    session_pc,       \* session -> number of pipeline steps it has performed
    script_pc,        \* position in the scripted scenario
    redis_store,      \* the Redis server behind RedisJSONCache: key -> [expires_at, value]
    last_set,         \* history: key -> what the last set_json on the key was given
    provider,         \* the upstream market data provider: the days it has a bar for
    fetch_calls,      \* history: how many times provider.fetch_daily has been called
    snapshots,        \* the snapshots directory: analysis_id -> [content, writes]
    writer,           \* writer -> its position in build_snapshot and its snapshot
    rule_case,        \* the rule table and the metrics given to apply_risk_rules
    analysis          \* the position of StockResearchAgent.analyze and its query

vars == <<storage_backend, cache_backend, current_state, checkpoints, files,
          cache_store, now, uuid_count, ret, aliases, n_updates, linear, prev_step,
          pc, lock_owner, lock_count, state_dict, session_pc, script_pc,
          redis_store, last_set, provider, fetch_calls, snapshots, writer, rule_case,
          analysis>>

manager_vars == <<current_state, checkpoints, files, cache_store>>
cache_vars == <<redis_store, last_set>>
pipeline_vars == <<provider, fetch_calls, snapshots, writer, rule_case, analysis>>
thread_vars == <<pc, lock_owner, lock_count, state_dict>>

----------------------------------------------------------------------------
(* Bounds of the model *)

\* datetime.now() is read at most MaxClock times in one behaviour
MaxClock == 4
\* number of OS threads calling update_state concurrently
NumThreads == 3
\* number of pipeline steps each concurrent session performs after init_state
MaxSessionSteps == 2
\* time.time() moves at most MaxCacheClock seconds while the cache is in use
MaxCacheClock == 3

----------------------------------------------------------------------------
(* Values *)

NoneVal == [none |-> TRUE]

T1 == <<"t", "1">>
T2 == <<"t", "2">>
\* thread_id=None and thread_id="" are both falsy in `thread_id or str(uuid4())`
NoThread == <<>>

Queries == {"AAPL"}
UpdatedQuery == "updated"
\* a value that is not a str, given where the schema wants one
NotAStr == "<int>"

IdentityAAPL ==
    [symbol |-> "AAPL", market |-> "US", company_name |-> "Apple Inc.",
     matched_on |-> "ticker", query |-> "AAPL"]

\* a dict is a record over its possible keys; Absent marks a key that is not set
Absent == "<absent>"
\* a leaf that is a datetime.date object, and the str its JSON form is
DateLeaf == "date(2024,1,1)"
IsoLeaf == "'2024-01-01'"
EmptyStore == [market_data |-> Absent, financials |-> Absent]
StoreBars == [market_data |-> "bars", financials |-> Absent]
StoreDate == [market_data |-> DateLeaf, financials |-> Absent]
EmptyMetrics == [technicals |-> Absent, risk |-> Absent]
SomeMetrics == [technicals |-> "tech", risk |-> "risk"]
NotADict == [not_a_dict |-> TRUE]

Violation == [code |-> "HIGH_VOLATILITY", severity |-> "high"]
\* an element of rules_violations that is not a dict
BadViolation == [code |-> "<str>", severity |-> "<str>"]

AssistantMsg == [role |-> "assistant", content |-> "explanation"]

\* step_index carried by a metadata dict given to update_state
MetaStepInput == 3

----------------------------------------------------------------------------
(* Strings as character sequences *)

DigitChar(d) ==
    CASE d = 0 -> "0" [] d = 1 -> "1" [] d = 2 -> "2" [] d = 3 -> "3"
      [] d = 4 -> "4" [] d = 5 -> "5" [] d = 6 -> "6" [] d = 7 -> "7"
      [] d = 8 -> "8" [] d = 9 -> "9"

RECURSIVE NatToStr(_)
NatToStr(n) == IF n < 10 THEN <<DigitChar(n)>>
               ELSE NatToStr(n \div 10) \o <<DigitChar(n % 10)>>

\* str(n) for a Python int
IntToStr(n) == IF n < 0 THEN <<"-">> \o NatToStr(0 - n) ELSE NatToStr(n)

\* s.replace(":", "__")
RECURSIVE ReplaceColon(_)
ReplaceColon(s) ==
    IF s = <<>> THEN <<>>
    ELSE IF Head(s) = ":" THEN <<"_", "_">> \o ReplaceColon(Tail(s))
    ELSE <<Head(s)>> \o ReplaceColon(Tail(s))

JsonExt == <<".", "j", "s", "o", "n">>
CheckpointPrefix == <<"c", "h", "e", "c", "k", "p", "o", "i", "n", "t", ":">>

\* str(uuid4()): the n-th value drawn; two draws never coincide
Uuid(n) == <<"u", "u", "i", "d", "-">> \o NatToStr(n)

----------------------------------------------------------------------------
(* ResearchState and its schema *)

FieldNames ==
    {"thread_id", "query", "target", "data_store", "analytic_metrics",
     "rules_violations", "messages", "snapshot_metadata", "final_snapshot"}

ListFields == {"messages", "rules_violations"}

MatchedOnLiterals == {"ticker", "company_name", "alias"}
RoleLiterals == {"system", "user", "assistant"}

\* SnapshotMetadata(step_index=..., node_name=..., thread_id=...), timestamp by default_factory
SnapshotMetadata(timestamp, step_index, node_name, thread_id) ==
    [timestamp |-> timestamp, step_index |-> step_index,
     node_name |-> node_name, thread_id |-> thread_id]

\* ResearchState(query=..., thread_id=..., snapshot_metadata=...), the other fields by default
ResearchState(query, thread_id, snapshot_metadata) ==
    [thread_id |-> thread_id, query |-> query, target |-> NoneVal,
     data_store |-> EmptyStore, analytic_metrics |-> EmptyMetrics,
     rules_violations |-> <<>>, messages |-> <<>>,
     snapshot_metadata |-> snapshot_metadata, final_snapshot |-> NoneVal]

\* `x.snapshot_metadata.step_index if x.snapshot_metadata else 0`
StepIndexOf(state) ==
    IF state.snapshot_metadata = NoneVal THEN 0
    ELSE state.snapshot_metadata.step_index

\* `x.snapshot_metadata.node_name if x.snapshot_metadata else "unknown"`
NodeNameOf(state) ==
    IF state.snapshot_metadata = NoneVal THEN "unknown"
    ELSE state.snapshot_metadata.node_name

\* a lookup that falls back on the history of some other thread
HistoryOfAnyThread(thread_id) ==
    IF thread_id \in DOMAIN checkpoints THEN checkpoints[thread_id]
    ELSE IF DOMAIN checkpoints = {} THEN <<>>
    ELSE checkpoints[CHOOSE t \in DOMAIN checkpoints : TRUE]

\* self._checkpoints.get(thread_id, [])
History(thread_id) ==
    IF thread_id \in DOMAIN checkpoints THEN checkpoints[thread_id] ELSE <<>>

\* the values a caller passes to update_state, per field
ListValue(items) == [is_list |-> TRUE, items |-> items]
SingleValue(item) == [is_list |-> FALSE, item |-> item]
MetaValue(form) ==
    [form |-> form,
     meta |-> IF form \in {"dict", "instance"}
              THEN SnapshotMetadata(0, MetaStepInput, "manual", T2)
              ELSE NoneVal]

UpdateInputs(key) ==
    CASE key = "query" -> {UpdatedQuery, NotAStr}
      [] key = "target" -> {IdentityAAPL}
      [] key = "data_store" -> {StoreDate}
      [] key = "messages" -> {SingleValue(AssistantMsg)}
      [] key = "thread_id" -> {T2}
      [] key = "snapshot_metadata" ->
            {MetaValue("none"), MetaValue("dict"), MetaValue("instance")}
      [] OTHER -> {NotAStr}

UpdateKeys ==
    {"query", "target", "data_store", "messages", "thread_id", "snapshot_metadata",
     "no_such_field"}

\* append=True is given with the list field
AppendInputs(key) == IF key \in ListFields THEN {TRUE} ELSE {FALSE}

\* the updates of the analysis pipeline whose results the evidence chain reads
PipelineInputs(key) ==
    CASE key = "target" -> {IdentityAAPL}
      [] key = "data_store" -> {StoreBars}
      [] key = "analytic_metrics" -> {SomeMetrics}
      [] key = "rules_violations" -> {ListValue(<<Violation>>)}
      [] key = "messages" -> {SingleValue(AssistantMsg)}

PipelineKeys == {"target", "data_store", "analytic_metrics", "rules_violations", "messages"}

\* `if not isinstance(value, list): value = [value]`
AsList(value) == IF value.is_list THEN value.items ELSE <<value.item>>

\* an update that assigns the value whatever append is
AssignedValueReplacing(state, key, value, append) == value

\* lines 164-169: the value state_dict[key] holds after the extend or the assignment
AssignedValue(state, key, value, append) ==
    IF append /\ key \in ListFields
    THEN ListValue(state[key] \o AsList(value))
    ELSE value

\* pydantic validation of one field of validation of ResearchState built from state_dict; extra="forbid"
ValidField(key, v) ==
    CASE key = "query" -> v # NotAStr
      [] key = "thread_id" -> TRUE
      [] key = "target" -> v = NoneVal \/ v.matched_on \in MatchedOnLiterals
      [] key \in {"data_store", "analytic_metrics"} -> v # NotADict
      [] key = "rules_violations" ->
            v.is_list /\ \A i \in 1..Len(v.items) : v.items[i] # BadViolation
      [] key = "messages" ->
            v.is_list /\ \A i \in 1..Len(v.items) : v.items[i].role \in RoleLiterals
      [] key = "snapshot_metadata" -> v.form \in {"none", "dict", "instance"}
      [] key = "final_snapshot" -> TRUE
      [] OTHER -> FALSE

\* what the validated model holds for the field
Coerce(key, v) ==
    IF key \in ListFields THEN v.items
    ELSE IF key = "snapshot_metadata" THEN v.meta
    ELSE v

\* the shape of state_dict["snapshot_metadata"] when line 172 tests it
MetaForm(state, key, value) ==
    IF key = "snapshot_metadata" THEN value.form
    ELSE IF state.snapshot_metadata = NoneVal THEN "none" ELSE "dict"

\* a step counter that counts down
StepAfterUpdateDown(meta, timestamp) ==
    [meta EXCEPT !.step_index = @ - 1, !.timestamp = timestamp]

\* lines 172-174 on a metadata dict
StepAfterUpdate(meta, timestamp) ==
    [meta EXCEPT !.step_index = @ + 1, !.timestamp = timestamp]

\* lines 162-176: the new ResearchState, for a call that does not raise
UpdatedState(state, key, value, append, timestamp) ==
    LET assigned == AssignedValue(state, key, value, append)
        old_meta == IF key = "snapshot_metadata" THEN Coerce(key, assigned)
                    ELSE state.snapshot_metadata
        new_meta == IF MetaForm(state, key, value) = "dict"
                    THEN StepAfterUpdate(old_meta, timestamp)
                    ELSE old_meta
    IN  [f \in FieldNames |->
            IF f = "snapshot_metadata" THEN new_meta
            ELSE IF f = key THEN Coerce(key, assigned)
            ELSE state[f]]

\* a schema that accepts every call
UpdateErrorNever(state, key, value, append) == ""

\* the exception update_state raises on an initialised manager, "" when none
UpdateError(state, key, value, append) ==
    IF MetaForm(state, key, value) = "instance" THEN "TypeError"
    ELSE IF key \notin FieldNames THEN "ValidationError"
    ELSE IF ~ValidField(key, AssignedValue(state, key, value, append))
         \/ MetaForm(state, key, value) = "empty_dict"
    THEN "ValidationError"
    ELSE ""

----------------------------------------------------------------------------
(* Durable storage *)

\* the naive datetime's ISO string in model_dump(mode="json"), and its parse
IsoFormat(t) == [iso |-> t]
ParseIso(x) == x.iso

\* a leaf of a dict[str, Any] in model_dump(mode="json"): a date becomes its ISO str
JsonLeaf(leaf) == IF leaf = DateLeaf THEN IsoLeaf ELSE leaf

\* json_dumps(state.model_dump(mode="json"))
Serialize(state) ==
    [state EXCEPT
        !.data_store = [k \in DOMAIN @ |-> JsonLeaf(@[k])],
        !.analytic_metrics = [k \in DOMAIN @ |-> JsonLeaf(@[k])],
        !.snapshot_metadata =
            IF @ = NoneVal THEN NoneVal
            ELSE [@ EXCEPT !.timestamp = IsoFormat(@)]]

\* ResearchState built from json_loads(text): datetime fields are parsed, Any leaves are kept
Deserialize(doc) ==
    [doc EXCEPT
        !.snapshot_metadata =
            IF @ = NoneVal THEN NoneVal
            ELSE [@ EXCEPT !.timestamp = ParseIso(@)]]

\* f"{thread_id}:{step_index}"
CheckpointId(thread_id, step_index) == thread_id \o <<":">> \o IntToStr(step_index)

\* a file name that keeps the ":" of the checkpoint id
FileNameWithColon(checkpoint_id) == checkpoint_id \o JsonExt

\* self._storage_backend / f"{safe_checkpoint_id}.json"
SafeFileName(checkpoint_id) == ReplaceColon(checkpoint_id) \o JsonExt
LegacyFileName(checkpoint_id) == checkpoint_id \o JsonExt

CacheKey(checkpoint_id) == CheckpointPrefix \o checkpoint_id
CheckpointTTL == 86400 * 7

\* d[k] = v on a dict held as a function
DictSet(d, k, v) == [x \in DOMAIN d \cup {k} |-> IF x = k THEN v ELSE d[x]]
\* d.pop(k, None)
DictPop(d, k) == [x \in DOMAIN d \ {k} |-> d[x]]

\* a write that is dropped
set_json_dropped(store, key, value, ttl_seconds, time) == store

\* InMemoryJSONCache.set_json
set_json(store, key, value, ttl_seconds, time) ==
    DictSet(store, key,
            [expires_at |-> IF ttl_seconds # 0 THEN time + ttl_seconds ELSE 0,
             value |-> value])

\* a read that never expires an entry
CacheHitForever(store, key, time) == key \in DOMAIN store

\* InMemoryJSONCache.get_json: is the key a hit at this time
CacheHit(store, key, time) ==
    /\ key \in DOMAIN store
    /\ ~(store[key].expires_at # 0 /\ time > store[key].expires_at)

\* InMemoryJSONCache.get_json: the store after the read (an expired entry is popped)
StoreAfterGet(store, key, time) ==
    IF key \in DOMAIN store /\ ~CacheHit(store, key, time)
    THEN DictPop(store, key) ELSE store

\* _persist_checkpoint: the directory after the call
FilesAfterPersist(checkpoint_id, state) ==
    IF storage_backend = "dir"
    THEN DictSet(files, SafeFileName(checkpoint_id), Serialize(state))
    ELSE files

\* _persist_checkpoint: the cache store after the call
CacheAfterPersist(checkpoint_id, state) ==
    IF storage_backend = "dir" THEN cache_store
    ELSE IF cache_backend
    THEN set_json(cache_store, CacheKey(checkpoint_id), Serialize(state),
                  CheckpointTTL, now)
    ELSE cache_store

\* load_checkpoint, lines 320-326: the file that is read
LoadPath(checkpoint_id) ==
    LET safe == SafeFileName(checkpoint_id)
        legacy == LegacyFileName(checkpoint_id)
    IN  IF safe \notin DOMAIN files
           /\ ReplaceColon(checkpoint_id) # checkpoint_id
           /\ legacy \in DOMAIN files
        THEN legacy ELSE safe

----------------------------------------------------------------------------
(* What a call returns or raises *)

Returned(op, arg, val) == [op |-> op, arg |-> arg, status |-> "ok", val |-> val]

\* an exception that is swallowed: the call returns normally
Swallowed(op, arg, error) ==
    [op |-> op, arg |-> arg, status |-> "ok", val |-> [error |-> error]]

Raised(op, arg, error) ==
    [op |-> op, arg |-> arg, status |-> "error", val |-> [error |-> error]]

----------------------------------------------------------------------------
(* The operations of StateManager, each taken under self._lock *)

\* StateManager.init_state
init_state(query, thread_id) ==
    LET given == thread_id # NoThread
        \* `thread_id or str(uuid4())` is evaluated once for the state ...
        state_thread == IF given THEN thread_id ELSE Uuid(uuid_count + 1)
        \* ... and once more for its metadata
        meta_thread == IF given THEN thread_id ELSE Uuid(uuid_count + 2)
        state == ResearchState(query, state_thread,
                               SnapshotMetadata(now + 1, 0, "init", meta_thread))
    IN  /\ now' = now + 1
        /\ uuid_count' = IF given THEN uuid_count ELSE uuid_count + 2
        /\ current_state' = state
        /\ ret' = Returned("init_state", [thread_id |-> thread_id], [state |-> state])
        /\ aliases' = {}
        /\ n_updates' = 0
        /\ linear' = (linear /\ current_state = NoneVal)
        /\ UNCHANGED <<checkpoints, files, cache_store>>

\* StateManager.update_state
update_state(key, value, append) ==
    LET arg == [key |-> key, append |-> append, value |-> value]
    IN  IF current_state = NoneVal
        THEN /\ ret' = Raised("update_state", arg, "ValueError")
             /\ UNCHANGED <<manager_vars, now, uuid_count, aliases, n_updates, linear>>
        ELSE IF UpdateError(current_state, key, value, append) # ""
        THEN /\ ret' = Raised("update_state", arg,
                              UpdateError(current_state, key, value, append))
             /\ UNCHANGED <<manager_vars, now, uuid_count, aliases, n_updates, linear>>
        ELSE LET state == UpdatedState(current_state, key, value, append, now + 1)
             IN  /\ now' = now + 1
                 /\ current_state' = state
                 /\ ret' = Returned("update_state", arg, [state |-> state])
                 /\ aliases' = {}
                 /\ n_updates' = IF n_updates >= 0 THEN n_updates + 1 ELSE n_updates
                 /\ linear' = (linear /\ key \notin {"snapshot_metadata", "thread_id"})
                 /\ UNCHANGED <<checkpoints, files, cache_store, uuid_count>>

\* StateManager.get_state
get_state ==
    /\ ret' = Returned("get_state", NoneVal, [state |-> current_state])
    /\ UNCHANGED <<manager_vars, now, uuid_count, aliases, n_updates, linear>>

\* a copy that keeps the node_name the state already carries
CheckpointCopyUnnamed(state, node_name, timestamp) ==
    IF state.snapshot_metadata = NoneVal THEN state
    ELSE [state EXCEPT !.snapshot_metadata.timestamp = timestamp]

\* save_checkpoint, lines 194-200: the copy that is stored
CheckpointCopy(state, node_name, timestamp) ==
    IF state.snapshot_metadata = NoneVal THEN state
    ELSE [state EXCEPT
            !.snapshot_metadata.node_name = IF node_name # "" THEN node_name ELSE @,
            !.snapshot_metadata.timestamp = timestamp]

\* a save that keeps only the newest checkpoint of the thread
HistoryAfterSaveReplacing(state) ==
    DictSet(checkpoints, state.thread_id, <<state>>)

\* save_checkpoint, lines 203-206
HistoryAfterSave(state) ==
    DictSet(checkpoints, state.thread_id, Append(History(state.thread_id), state))

\* save_checkpoint, line 212: is _persist_checkpoint called
PersistsOnSave == storage_backend # "none"

\* StateManager.save_checkpoint; io_ok is whether the write to storage succeeds
save_checkpoint(node_name, io_ok) ==
    LET arg == [node_name |-> node_name]
    IN  IF current_state = NoneVal
        THEN /\ ret' = Raised("save_checkpoint", arg, "ValueError")
             /\ UNCHANGED <<manager_vars, now, uuid_count, aliases, n_updates, linear>>
        ELSE LET state == CheckpointCopy(current_state, node_name, now + 1)
                 checkpoint_id == CheckpointId(state.thread_id, StepIndexOf(state))
                 written == PersistsOnSave /\ io_ok
             IN  /\ now' = now + 1
                 /\ checkpoints' = HistoryAfterSave(state)
                 /\ files' = IF written THEN FilesAfterPersist(checkpoint_id, state)
                             ELSE files
                 /\ cache_store' = IF written THEN CacheAfterPersist(checkpoint_id, state)
                                   ELSE cache_store
                 /\ ret' = IF PersistsOnSave /\ ~io_ok
                           THEN Raised("save_checkpoint", arg, "OSError")
                           ELSE Returned("save_checkpoint", arg,
                                         [checkpoint_id |-> checkpoint_id])
                 /\ UNCHANGED <<current_state, uuid_count, aliases, n_updates, linear>>

\* a search that keeps the last match instead of stopping at the first
RECURSIVE FindLastCheckpoint(_, _)
FindLastCheckpoint(history, step_index) ==
    IF history = <<>> THEN NoneVal
    ELSE IF history[Len(history)].snapshot_metadata # NoneVal
            /\ history[Len(history)].snapshot_metadata.step_index = step_index
    THEN history[Len(history)]
    ELSE FindLastCheckpoint(SubSeq(history, 1, Len(history) - 1), step_index)

\* rollback, lines 234-238: the first checkpoint of the history at the step
RECURSIVE FindCheckpoint(_, _)
FindCheckpoint(history, step_index) ==
    IF history = <<>> THEN NoneVal
    ELSE IF Head(history).snapshot_metadata # NoneVal
            /\ Head(history).snapshot_metadata.step_index = step_index
    THEN Head(history)
    ELSE FindCheckpoint(Tail(history), step_index)

\* StateManager.rollback
rollback(step_index) ==
    LET arg == [step_index |-> step_index]
    IN  IF current_state = NoneVal
        THEN /\ ret' = Raised("rollback", arg, "ValueError")
             /\ UNCHANGED <<manager_vars, now, uuid_count, aliases, n_updates, linear>>
        ELSE LET target_state ==
                     FindCheckpoint(History(current_state.thread_id), step_index)
             IN  IF target_state = NoneVal
                 THEN /\ ret' = Raised("rollback", arg, "ValueError")
                      /\ UNCHANGED <<manager_vars, now, uuid_count, aliases,
                                     n_updates, linear>>
                 ELSE /\ current_state' = target_state
                      /\ ret' = Returned("rollback", arg, [state |-> target_state])
                      /\ aliases' = {}
                      /\ n_updates' = -1
                      /\ linear' = FALSE
                      /\ UNCHANGED <<checkpoints, files, cache_store, now, uuid_count>>

\* StateManager.load_checkpoint
load_checkpoint(checkpoint_id) ==
    LET arg == [checkpoint_id |-> checkpoint_id]
        key == CacheKey(checkpoint_id)
    IN  /\ UNCHANGED <<current_state, checkpoints, files, now, uuid_count, aliases,
                       n_updates, linear>>
        /\ IF storage_backend = "dir"
           THEN /\ cache_store' = cache_store
                /\ ret' = IF LoadPath(checkpoint_id) \notin DOMAIN files
                          THEN Raised("load_checkpoint", arg, "FileNotFoundError")
                          ELSE Returned("load_checkpoint", arg,
                                   [state |-> Deserialize(files[LoadPath(checkpoint_id)])])
           ELSE IF cache_backend
           THEN /\ cache_store' = StoreAfterGet(cache_store, key, now)
                /\ ret' = IF ~CacheHit(cache_store, key, now)
                          THEN Raised("load_checkpoint", arg, "ValueError")
                          ELSE Returned("load_checkpoint", arg,
                                   [state |-> Deserialize(cache_store[key].value)])
           ELSE /\ cache_store' = cache_store
                /\ ret' = Raised("load_checkpoint", arg, "ValueError")

\* a record that never carries the entries of lines 267-274
EvidenceBare(state, conclusion_key) ==
    [conclusion |-> IF conclusion_key \in FieldNames
                    THEN [k \in {conclusion_key} |-> state[k]]
                    ELSE NoneVal,
     thread_id |-> state.thread_id, query |-> state.query,
     message_trace |-> [i \in 1..Len(state.messages) |-> [role |-> state.messages[i].role]]]

\* get_evidence_chain, lines 260-280: the record that is returned
Evidence(state, conclusion_key) ==
    LET conclusion == IF conclusion_key \in FieldNames
                      THEN [k \in {conclusion_key} |-> state[k]]
                      ELSE NoneVal
        message_trace == [i \in 1..Len(state.messages) |-> [role |-> state.messages[i].role]]
    IN  IF conclusion_key = "rules_violations"
        THEN [conclusion |-> conclusion, thread_id |-> state.thread_id,
              query |-> state.query,
              supporting_metrics |-> state.analytic_metrics,
              raw_data |-> state.data_store.market_data,
              target |-> state.target, message_trace |-> message_trace]
        ELSE IF conclusion_key = "analytic_metrics"
        THEN [conclusion |-> conclusion, thread_id |-> state.thread_id,
              query |-> state.query,
              raw_data |-> state.data_store.market_data,
              target |-> state.target, message_trace |-> message_trace]
        ELSE [conclusion |-> conclusion, thread_id |-> state.thread_id,
              query |-> state.query, message_trace |-> message_trace]

\* the fields whose values are mutable objects (list, dict, model instance)
IsMutable(state, field) ==
    CASE field \in {"thread_id", "query"} -> FALSE
      [] field \in {"target", "snapshot_metadata", "final_snapshot"} ->
            state[field] # NoneVal
      [] field = "market_data" -> state.data_store.market_data \notin {Absent, DateLeaf}
      [] OTHER -> TRUE

\* what part of the active state each entry of the evidence record refers to
EvidenceParts(conclusion_key) ==
    (IF conclusion_key \in FieldNames THEN {conclusion_key} ELSE {})
    \cup (IF conclusion_key = "rules_violations" THEN {"analytic_metrics"} ELSE {})
    \cup (IF conclusion_key \in {"rules_violations", "analytic_metrics"}
          THEN {"market_data", "target"} ELSE {})

\* get_evidence_chain, lines 261-274: the entries that are put into the record as
\* they are, not copied, so that the record and the active state share the object
SharedParts(state, conclusion_key) ==
    {part \in EvidenceParts(conclusion_key) : IsMutable(state, part)}

\* StateManager.get_evidence_chain
get_evidence_chain(conclusion_key) ==
    LET arg == [conclusion_key |-> conclusion_key]
    IN  /\ ret' = IF current_state = NoneVal
                  THEN Returned("get_evidence_chain", arg, <<>>)
                  ELSE Returned("get_evidence_chain", arg,
                                Evidence(current_state, conclusion_key))
        /\ aliases' = IF current_state = NoneVal THEN aliases
                      ELSE aliases \cup SharedParts(current_state, conclusion_key)
        /\ UNCHANGED <<manager_vars, now, uuid_count, n_updates, linear>>

\* list_checkpoints, lines 292-299; a timestamp of None is -1
CheckpointEntry(c) ==
    [step_index |-> StepIndexOf(c), node_name |-> NodeNameOf(c),
     timestamp |-> IF c.snapshot_metadata = NoneVal THEN -1
                   ELSE c.snapshot_metadata.timestamp]

\* StateManager.list_checkpoints
list_checkpoints(thread_id) ==
    LET tid == IF thread_id # NoThread THEN thread_id
               ELSE IF current_state # NoneVal THEN current_state.thread_id
               ELSE NoThread
        entries == IF tid = NoThread THEN <<>>
                   ELSE [i \in 1..Len(History(tid)) |-> CheckpointEntry(History(tid)[i])]
    IN  /\ ret' = Returned("list_checkpoints", [thread_id |-> thread_id],
                           [entries |-> entries])
        /\ UNCHANGED <<manager_vars, now, uuid_count, aliases, n_updates, linear>>

\* an in-place change of a mutable object by the code that holds it
Tampered(part, value) ==
    CASE part \in ListFields -> <<>>
      [] part = "target" -> [value EXCEPT !.symbol = "TAMPERED"]
      [] part = "analytic_metrics" -> [value EXCEPT !.technicals = "TAMPERED"]
      [] part = "data_store" -> [value EXCEPT !.financials = "TAMPERED"]
      [] part = "snapshot_metadata" -> [value EXCEPT !.node_name = "TAMPERED"]
      [] part = "final_snapshot" -> [value EXCEPT !.analysis_id = "TAMPERED"]

\* the calls that return deepcopy(state): lines 149, 177, 182, 244
ReturnsStateCopy == {"init_state", "update_state", "get_state", "rollback"}

\* the active state object after the caller has changed, in place, the object that
\* `part` of the last returned value refers to: the state changes when the object
\* is shared with it
StateAfterMutation(state, part) ==
    IF ~(ret.op = "get_evidence_chain" /\ part \in aliases) THEN state
    ELSE IF part = "market_data"
    THEN [state EXCEPT !.data_store.market_data = "TAMPERED"]
    ELSE [state EXCEPT ![part] = Tampered(part, @)]

\* the parts of the last returned value that the caller can mutate in place
MutableParts ==
    IF ret.status # "ok" \/ current_state = NoneVal THEN {}
    ELSE IF ret.op = "get_evidence_chain"
    THEN {part \in EvidenceParts(ret.arg.conclusion_key) : IsMutable(current_state, part)}
    ELSE IF ret.op \in ReturnsStateCopy
    THEN {part \in FieldNames : IsMutable(ret.val.state, part)}
    ELSE IF ret.op = "list_checkpoints" /\ ret.val.entries # <<>>
    THEN {"entries"}
    ELSE {}

\* the caller mutates, in place, one part of the value the last call returned
caller_mutates(part) ==
    /\ part \in MutableParts
    /\ current_state' = StateAfterMutation(current_state, part)
    /\ ret' = Returned("caller_mutation", [part |-> part, of |-> ret.op], NoneVal)
    /\ linear' = (linear /\ current_state'.snapshot_metadata = current_state.snapshot_metadata)
    /\ UNCHANGED <<checkpoints, files, cache_store, now, uuid_count, aliases, n_updates>>

----------------------------------------------------------------------------
(* The inputs the callers choose *)

NodeNames == {"", "identify"}

\* rollback targets: step 0 and every step some checkpoint of the active thread is at
RollbackInputs ==
    {0} \cup (IF current_state = NoneVal THEN {}
              ELSE {StepIndexOf(History(current_state.thread_id)[i]) :
                        i \in 1..Len(History(current_state.thread_id))})

\* the same checkpoint id written with the other delimiter
WithUnderscores(checkpoint_id) == ReplaceColon(checkpoint_id)

\* ids given to load_checkpoint: the one save_checkpoint just returned, in both
\* spellings, and the first id of thread t1
LoadInputs ==
    {CheckpointId(T1, 0)}
    \cup (IF ret.op = "save_checkpoint" /\ ret.status = "ok"
          THEN {ret.val.checkpoint_id, WithUnderscores(ret.val.checkpoint_id)}
          ELSE {})

----------------------------------------------------------------------------
(* The manager driven by one caller, operation by operation *)

\* StateManager(), StateManager(storage_backend=dir, cache_backend=cache) as the agent
\* builds it, and StateManager(cache_backend=cache)
Backends == {<<"none", FALSE>>, <<"dir", TRUE>>, <<"none", TRUE>>}

InitManager ==
    /\ \E backend \in Backends :
          storage_backend = backend[1] /\ cache_backend = backend[2]
    /\ current_state = NoneVal
    /\ checkpoints = <<>>
    /\ files = <<>>
    /\ cache_store = <<>>
    /\ now = 0
    /\ uuid_count = 0
    /\ ret = Returned("none", NoneVal, NoneVal)
    /\ aliases = {}
    /\ n_updates = 0
    /\ linear = TRUE
    /\ prev_step = -1

\* what a call of the single caller leaves alone, and the step it started from
\* the clock can still be read
ClockLeft == now < MaxClock

CallerFrame ==
    /\ prev_step' = IF current_state = NoneVal THEN -1 ELSE StepIndexOf(current_state)
    /\ UNCHANGED <<storage_backend, cache_backend, thread_vars, session_pc, script_pc,
                   cache_vars, pipeline_vars>>

\* the analysis sessions that share the manager
Sessions == {1, 2}

IdleCallers ==
    /\ pc = [t \in 1..NumThreads |-> "idle"]
    /\ lock_owner = 0
    /\ lock_count = 0
    /\ state_dict = [t \in 1..NumThreads |-> NoneVal]
    /\ session_pc = [s \in Sessions |-> 0]
    /\ script_pc = 0
    /\ redis_store = <<>>
    /\ last_set = <<>>

\* no market request, snapshot, rule evaluation or analysis has been made
NoProvider == {}
NoSnapshots == <<>>
NoWriters == <<>>
NoRuleCase == NoneVal
NoAnalysis ==
    [pc |-> "idle", stage |-> 0, query |-> "", runs |-> 0, fresh |-> FALSE,
     financials |-> FALSE]

IdlePipeline ==
    /\ provider = NoProvider
    /\ fetch_calls = 0
    /\ snapshots = NoSnapshots
    /\ writer = NoWriters
    /\ rule_case = NoRuleCase
    /\ analysis = NoAnalysis

Idle == IdleCallers /\ IdlePipeline

Init == InitManager /\ Idle

InitState ==
    /\ ClockLeft
    /\ \E query \in Queries, thread_id \in {T1, NoThread} :
          init_state(query, thread_id)
    /\ CallerFrame

UpdateState ==
    /\ ClockLeft
    /\ \E key \in UpdateKeys :
          \E value \in UpdateInputs(key), append \in AppendInputs(key) :
              update_state(key, value, append)
    /\ CallerFrame

GetState ==
    /\ get_state
    /\ CallerFrame

SaveCheckpoint ==
    /\ ClockLeft
    /\ \E node_name \in NodeNames, io_ok \in BOOLEAN : save_checkpoint(node_name, io_ok)
    /\ CallerFrame

Rollback ==
    /\ \E step_index \in RollbackInputs : rollback(step_index)
    /\ CallerFrame

LoadCheckpoint ==
    /\ \E checkpoint_id \in LoadInputs : load_checkpoint(checkpoint_id)
    /\ CallerFrame

Next ==
    \/ InitState
    \/ UpdateState
    \/ GetState
    \/ SaveCheckpoint
    \/ Rollback
    \/ LoadCheckpoint

Spec == Init /\ [][Next]_vars

----------------------------------------------------------------------------
(* The manager and a caller that reads the derived views and keeps what it gets *)

EvidenceKeys ==
    {"rules_violations", "analytic_metrics", "messages", "query", "no_such_field"}

InitStateT1 ==
    /\ ClockLeft
    /\ init_state("AAPL", T1)
    /\ CallerFrame

PipelineUpdate ==
    /\ ClockLeft
    /\ \E key \in PipelineKeys :
          \E value \in PipelineInputs(key) : update_state(key, value, key = "messages")
    /\ CallerFrame

SaveNamed ==
    /\ ClockLeft
    /\ save_checkpoint("identify", TRUE)
    /\ CallerFrame

GetEvidenceChain ==
    /\ \E conclusion_key \in EvidenceKeys : get_evidence_chain(conclusion_key)
    /\ CallerFrame

ListCheckpoints ==
    /\ \E thread_id \in {NoThread, T2} : list_checkpoints(thread_id)
    /\ CallerFrame

CallerMutates ==
    /\ \E part \in MutableParts : caller_mutates(part)
    /\ CallerFrame

NextViews ==
    \/ InitStateT1
    \/ PipelineUpdate
    \/ SaveNamed
    \/ GetState
    \/ GetEvidenceChain
    \/ ListCheckpoints
    \/ CallerMutates

SpecViews == Init /\ [][NextViews]_vars

----------------------------------------------------------------------------
(* OS threads calling update_state on one manager, statement by statement *)

\* the fields the concurrent callers update
ThreadKeys == {"query", "messages"}

\* the value OS thread t passes for the field
ThreadValue(t, key) ==
    IF key = "query" THEN "q" \o ToString(t) ELSE SingleValue(AssistantMsg)

Threads == 1..NumThreads

\* the positions of a thread that are inside `with self._lock:`
InsideLock == {"locked", "assign", "step", "validate"}

\* a lock that never blocks
LockAlwaysFree(t) == TRUE

\* threading.RLock: thread t can acquire when the lock is free or already its own
LockFree(t) == lock_owner \in {0, t}

ThreadFrame ==
    UNCHANGED <<storage_backend, cache_backend, checkpoints, files, cache_store,
                uuid_count, ret, aliases, linear, prev_step, session_pc, script_pc,
                cache_vars, pipeline_vars>>

\* __exit__ of `with self._lock:`
Release ==
    /\ lock_count' = lock_count - 1
    /\ lock_owner' = IF lock_count - 1 <= 0 THEN 0 ELSE lock_owner

\* the main thread initialises the manager before it starts the threads
MainInit ==
    /\ current_state = NoneVal
    /\ init_state("AAPL", T1)
    /\ CallerFrame

\* the main thread saves a checkpoint: the whole call runs under the lock
MainSave ==
    /\ ClockLeft
    /\ current_state # NoneVal
    /\ LockFree(0)
    /\ save_checkpoint("", TRUE)
    /\ CallerFrame

\* line 158: thread t calls update_state(key, ThreadValue(t, key), append) and
\* acquires the lock
Acquire(t) ==
    /\ pc[t] = "idle"
    /\ current_state # NoneVal
    /\ LockFree(t)
    /\ \E key \in ThreadKeys :
          state_dict' = [state_dict EXCEPT
                            ![t] = [key |-> key, append |-> key \in ListFields,
                                    dict |-> NoneVal]]
    /\ lock_owner' = t
    /\ lock_count' = lock_count + 1
    /\ pc' = [pc EXCEPT ![t] = "locked"]
    /\ UNCHANGED <<current_state, now, n_updates>>
    /\ ThreadFrame

\* lines 159-162: the None check and model_dump()
Dump(t) ==
    /\ pc[t] = "locked"
    /\ IF current_state = NoneVal
       THEN /\ pc' = [pc EXCEPT ![t] = "raised"]
            /\ Release
            /\ UNCHANGED state_dict
       ELSE /\ pc' = [pc EXCEPT ![t] = "assign"]
            /\ state_dict' = [state_dict EXCEPT ![t].dict = current_state]
            /\ UNCHANGED <<lock_owner, lock_count>>
    /\ UNCHANGED <<current_state, now, n_updates>>
    /\ ThreadFrame

\* lines 164-169: extend or assign state_dict[key]
Assign(t) ==
    /\ pc[t] = "assign"
    /\ LET frame == state_dict[t]
           value == AssignedValue(frame.dict, frame.key,
                                  ThreadValue(t, frame.key), frame.append)
       IN  state_dict' = [state_dict EXCEPT ![t].dict[frame.key] = value]
    /\ pc' = [pc EXCEPT ![t] = "step"]
    /\ UNCHANGED <<current_state, now, n_updates, lock_owner, lock_count>>
    /\ ThreadFrame

\* lines 172-174: bump step_index and read the clock
BumpStep(t) ==
    /\ pc[t] = "step"
    /\ IF state_dict[t].dict.snapshot_metadata # NoneVal
       THEN /\ state_dict' = [state_dict EXCEPT ![t].dict.snapshot_metadata =
                                 StepAfterUpdate(@, now + 1)]
            /\ now' = now + 1
       ELSE UNCHANGED <<state_dict, now>>
    /\ pc' = [pc EXCEPT ![t] = "validate"]
    /\ UNCHANGED <<current_state, n_updates, lock_owner, lock_count>>
    /\ ThreadFrame

\* lines 176-177: the ResearchState built from state_dict, the return and the release
Validate(t) ==
    /\ pc[t] = "validate"
    /\ LET frame == state_dict[t]
       IN  IF ValidField(frame.key, frame.dict[frame.key])
           THEN /\ current_state' =
                      [frame.dict EXCEPT ![frame.key] = Coerce(frame.key, @)]
                /\ n_updates' = n_updates + 1
                /\ pc' = [pc EXCEPT ![t] = "done"]
           ELSE /\ pc' = [pc EXCEPT ![t] = "raised"]
                /\ UNCHANGED <<current_state, n_updates>>
    /\ Release
    /\ UNCHANGED <<state_dict, now>>
    /\ ThreadFrame

NextThreads ==
    \/ MainInit
    \/ MainSave
    \/ \E t \in Threads : Acquire(t)
    \/ \E t \in Threads : Dump(t)
    \/ \E t \in Threads : Assign(t)
    \/ \E t \in Threads : BumpStep(t)
    \/ \E t \in Threads : Validate(t)

SpecThreads == Init /\ [][NextThreads]_vars

----------------------------------------------------------------------------
(* One caller running the identify / edit / rollback sequence, with reads of the
   manager in between *)

\* the step_index values the last call of the sequence asks rollback for
ScriptRollbackSteps == {0, 1, 2}

\* a call of the sequence: the caller moves on to the next one
ScriptFrame ==
    /\ script_pc' = script_pc + 1
    /\ prev_step' = IF current_state = NoneVal THEN -1 ELSE StepIndexOf(current_state)
    /\ UNCHANGED <<storage_backend, cache_backend, thread_vars, session_pc, cache_vars,
                 pipeline_vars>>

ScriptInit ==
    /\ script_pc = 0
    /\ init_state("AAPL", T1)
    /\ ScriptFrame

ScriptIdentify ==
    /\ script_pc = 1
    /\ update_state("target", IdentityAAPL, FALSE)
    /\ ScriptFrame

ScriptSaveIdentify ==
    /\ script_pc = 2
    /\ save_checkpoint("identify", TRUE)
    /\ ScriptFrame

ScriptEdit ==
    /\ script_pc = 3
    /\ update_state("query", UpdatedQuery, FALSE)
    /\ ScriptFrame

ScriptSaveEdit ==
    /\ script_pc = 4
    /\ save_checkpoint("edit", TRUE)
    /\ ScriptFrame

ScriptRollback ==
    /\ script_pc = 5
    /\ \E step_index \in ScriptRollbackSteps : rollback(step_index)
    /\ ScriptFrame

ScriptList ==
    /\ list_checkpoints(T1)
    /\ CallerFrame

ScriptLoad ==
    /\ \E step_index \in ScriptRollbackSteps :
          load_checkpoint(CheckpointId(T1, step_index))
    /\ CallerFrame

NextScript ==
    \/ ScriptInit
    \/ ScriptIdentify
    \/ ScriptSaveIdentify
    \/ ScriptEdit
    \/ ScriptSaveEdit
    \/ ScriptRollback
    \/ ScriptList
    \/ ScriptLoad
    \/ GetState

SpecScript == Init /\ [][NextScript]_vars

----------------------------------------------------------------------------
(* Two analysis sessions, each with its own thread_id, sharing one manager; the
   calls interleave one whole call at a time *)

\* what session s passes to init_state and writes into the state
SessionThread(s) == IF s = 1 THEN T1 ELSE T2
SessionQuery(s) == IF s = 1 THEN "AAPL" ELSE "MSFT"
SessionIdentity(s) ==
    [IdentityAAPL EXCEPT !.symbol = SessionQuery(s), !.query = SessionQuery(s)]

\* a call of session s
SessionFrame(s) ==
    /\ session_pc' = [session_pc EXCEPT ![s] = @ + 1]
    /\ prev_step' = IF current_state = NoneVal THEN -1 ELSE StepIndexOf(current_state)
    /\ UNCHANGED <<storage_backend, cache_backend, thread_vars, script_pc, cache_vars,
                 pipeline_vars>>

\* the session has called init_state and has pipeline steps left
InPipeline(s) == session_pc[s] >= 1 /\ session_pc[s] <= MaxSessionSteps

SessionInit(s) ==
    /\ session_pc[s] = 0
    /\ init_state(SessionQuery(s), SessionThread(s))
    /\ SessionFrame(s)

SessionUpdate(s) ==
    /\ InPipeline(s)
    /\ update_state("target", SessionIdentity(s), FALSE)
    /\ SessionFrame(s)

SessionSave(s) ==
    /\ InPipeline(s)
    /\ save_checkpoint("identify", TRUE)
    /\ SessionFrame(s)

NextSessions ==
    \/ \E s \in Sessions : SessionInit(s)
    \/ \E s \in Sessions : SessionUpdate(s)
    \/ \E s \in Sessions : SessionSave(s)

SpecSessions == Init /\ [][NextSessions]_vars

----------------------------------------------------------------------------
(* A manager over a checkpoint directory, which may already hold a checkpoint
   file written under the name with ":" *)

\* the queries the caller of this manager starts analyses with
DurableQueries == {"AAPL", "MSFT"}

\* a checkpoint of thread t1 at step 0, as a file written with ":" in its name holds it
LegacyState == ResearchState("AAPL", T1, SnapshotMetadata(0, 0, "init", T1))
LegacyDir ==
    DictSet(<<>>, LegacyFileName(CheckpointId(T1, 0)), Serialize(LegacyState))

\* StateManager(storage_backend=dir), with or without a cache, on a directory
\* that is empty or holds the legacy file
InitDurable ==
    /\ storage_backend = "dir"
    /\ cache_backend \in BOOLEAN
    /\ files \in {<<>>, LegacyDir}
    /\ current_state = NoneVal
    /\ checkpoints = <<>>
    /\ cache_store = <<>>
    /\ now = 0
    /\ uuid_count = 0
    /\ ret = Returned("none", NoneVal, NoneVal)
    /\ aliases = {}
    /\ n_updates = 0
    /\ linear = TRUE
    /\ prev_step = -1
    /\ Idle

\* the ids given to load_checkpoint: those of thread t1, in both spellings
DurableLoadInputs ==
    UNION {{CheckpointId(T1, k), WithUnderscores(CheckpointId(T1, k))} : k \in {0, 1}}

DurableInit ==
    /\ ClockLeft
    /\ \E query \in DurableQueries : init_state(query, T1)
    /\ CallerFrame

DurableUpdate ==
    /\ ClockLeft
    /\ update_state("target", IdentityAAPL, FALSE)
    /\ CallerFrame

DurableSave ==
    /\ ClockLeft
    /\ \E node_name \in NodeNames : save_checkpoint(node_name, TRUE)
    /\ CallerFrame

DurableRollback ==
    /\ \E step_index \in RollbackInputs : rollback(step_index)
    /\ CallerFrame

DurableLoad ==
    /\ \E checkpoint_id \in DurableLoadInputs : load_checkpoint(checkpoint_id)
    /\ CallerFrame

NextDurable ==
    \/ DurableInit
    \/ DurableUpdate
    \/ DurableSave
    \/ DurableRollback
    \/ DurableLoad

SpecDurable == InitDurable /\ [][NextDurable]_vars

-----------------------------------------------------------------------------
(* The manager with a storage directory, used for threads whose ids hold the
   delimiters of the checkpoint id and of the file name *)

\* the thread ids "a:b" and "a__b"
ThreadColon == <<"a", ":", "b">>
ThreadUnderscores == <<"a", "_", "_", "b">>
NamedThreads == {ThreadColon, ThreadUnderscores}

NamesInit ==
    /\ ClockLeft
    /\ \E query \in DurableQueries, thread_id \in NamedThreads :
          init_state(query, thread_id)
    /\ CallerFrame

NamesUpdate ==
    /\ ClockLeft
    /\ update_state("target", IdentityAAPL, FALSE)
    /\ CallerFrame

NamesSave ==
    /\ ClockLeft
    /\ save_checkpoint("", TRUE)
    /\ CallerFrame

NamesLoad ==
    /\ \E thread_id \in NamedThreads, step_index \in {0, 1} :
          load_checkpoint(CheckpointId(thread_id, step_index))
    /\ CallerFrame

NextNames ==
    \/ NamesInit
    \/ NamesUpdate
    \/ NamesSave
    \/ NamesLoad

SpecNames == InitDurable /\ [][NextNames]_vars

----------------------------------------------------------------------------
(* The JSON cache: one caller issuing the same set_json / get_json calls to an
   InMemoryJSONCache (cache_store) and to a RedisJSONCache (redis_store) *)

CacheKeys == {CacheKey(CheckpointId(T1, 0)), CacheKey(CheckpointId(T2, 0))}
CacheValues == {StoreBars, StoreDate}
CacheTTLs == {0, 1}

\* json_dumps(value): utils._default turns a date leaf into its ISO string
JsonDumps(value) == [k \in DOMAIN value |-> JsonLeaf(value[k])]

\* what get_json returns: the value of a hit, None otherwise
GetResult(store, key, time) ==
    IF CacheHit(store, key, time) THEN [value |-> store[key].value] ELSE NoneVal

\* RedisJSONCache.set_json: SET key json_dumps(value) EX int(ttl_seconds); the
\* server refuses EX 0 unless the client leaves the option out for a zero
RedisAfterSet(store, key, value, ttl_seconds, time, refused) ==
    IF ttl_seconds = 0 /\ refused THEN store
    ELSE DictSet(store, key,
                 [expires_at |-> IF ttl_seconds # 0 THEN time + ttl_seconds ELSE 0,
                  value |-> JsonDumps(value)])

CacheFrame ==
    UNCHANGED <<storage_backend, cache_backend, current_state, checkpoints, files,
                uuid_count, n_updates, linear, prev_step, thread_vars, session_pc,
                script_pc, pipeline_vars>>

\* set_json(key, value, ttl_seconds) on both backends; the caller keeps the
\* object it passed
cache_set(key, value, ttl_seconds, refused) ==
    /\ cache_store' = set_json(cache_store, key, value, ttl_seconds, now)
    /\ redis_store' = RedisAfterSet(redis_store, key, value, ttl_seconds, now, refused)
    /\ ret' = Returned("set_json", [key |-> key, ttl_seconds |-> ttl_seconds],
                       [memory |-> NoneVal,
                        redis |-> IF ttl_seconds = 0 /\ refused
                                  THEN [error |-> "ResponseError"] ELSE NoneVal])
    /\ aliases' = aliases \cup {key}
    /\ last_set' = DictSet(last_set, key,
                           [value |-> value, at |-> now, ttl_seconds |-> ttl_seconds,
                            intact |-> TRUE])
    /\ UNCHANGED now

\* get_json(key) on both backends; the caller keeps the object it got
cache_get(key) ==
    /\ cache_store' = StoreAfterGet(cache_store, key, now)
    /\ redis_store' = StoreAfterGet(redis_store, key, now)
    /\ ret' = Returned("get_json", [key |-> key],
                       [memory |-> GetResult(cache_store, key, now),
                        redis |-> GetResult(redis_store, key, now)])
    /\ aliases' = IF CacheHit(cache_store, key, now) THEN aliases \cup {key}
                  ELSE aliases \ {key}
    /\ UNCHANGED <<now, last_set>>

\* the caller changes, in place, the object it passed to set_json or got from
\* get_json for the key: the in-memory store holds that very object
cache_mutate(key) ==
    /\ key \in aliases
    /\ key \in DOMAIN cache_store
    /\ cache_store' = [cache_store EXCEPT ![key].value = Tampered("data_store", @)]
    /\ ret' = Returned("cache_mutation", [key |-> key], NoneVal)
    /\ last_set' = [last_set EXCEPT ![key].intact = FALSE]
    /\ UNCHANGED <<now, aliases, redis_store>>

InitCache == Init /\ storage_backend = "none" /\ cache_backend

CacheSet ==
    /\ \E key \in CacheKeys, value \in CacheValues, ttl_seconds \in CacheTTLs,
          refused \in BOOLEAN :
          /\ refused => ttl_seconds = 0
          /\ cache_set(key, value, ttl_seconds, refused)
    /\ CacheFrame

CacheGet ==
    /\ \E key \in CacheKeys : cache_get(key)
    /\ CacheFrame

CacheMutate ==
    /\ \E key \in CacheKeys : cache_mutate(key)
    /\ CacheFrame

\* time.time() moves on
Tick ==
    /\ now < MaxCacheClock
    /\ now' = now + 1
    /\ ret' = Returned("tick", NoneVal, NoneVal)
    /\ UNCHANGED <<cache_store, redis_store, aliases, last_set>>
    /\ CacheFrame

NextCache ==
    \/ CacheSet
    \/ CacheGet
    \/ CacheMutate
    \/ Tick

SpecCache == InitCache /\ [][NextCache]_vars

----------------------------------------------------------------------------
(* MarketDataService.get_daily_range over the in-memory JSON cache and an upstream
   provider; days are numbered, one symbol is requested *)

\* the last day of the calendar
MaxDay == 3
\* how many provider calls are followed
MaxFetchCalls == 3
\* MarketDataService.ttl_seconds
ServiceTTL == 2
\* how far time.time() moves
MaxMarketClock == 3

Days == 1..MaxDay
Symbol == "AAPL"
\* the provider has a bar for every day, or for every day but a holiday
ProviderData == {Days, Days \ {2}}
MinBars == {0, 2}

\* MarketDataService._key
MarketKey(symbol, day) == <<"market_data", symbol, day>>

\* pd.date_range(start, end, freq="D")
DateRange(start, end) == {d \in Days : start <= d /\ d <= end}

\* a set of days in increasing order
RECURSIVE SortedDays(_)
SortedDays(days) ==
    IF days = {} THEN <<>>
    ELSE LET first == CHOOSE d \in days : \A e \in days : d <= e
         IN  <<first>> \o SortedDays(days \ {first})

\* a lookup that throws away every entry of the range
RECURSIVE LookedUpClearing(_, _, _, _)
LookedUpClearing(store, symbol, days, time) ==
    IF days = {} THEN store
    ELSE LET d == CHOOSE e \in days : TRUE
         IN  LookedUpClearing(DictPop(store, MarketKey(symbol, d)), symbol,
                              days \ {d}, time)

\* get_daily_range, lines 71-74: the store after get_json on the key of every day
RECURSIVE LookedUp(_, _, _, _)
LookedUp(store, symbol, days, time) ==
    IF days = {} THEN store
    ELSE LET d == CHOOSE e \in days : TRUE
         IN  LookedUp(StoreAfterGet(store, MarketKey(symbol, d), time), symbol,
                      days \ {d}, time)

\* get_daily_range, lines 72-87: the dates of the bars found in the cache
HaveDates(store, symbol, days, time) ==
    {store[MarketKey(symbol, d)].value.date :
        d \in {e \in days : CacheHit(store, MarketKey(symbol, e), time)}}

\* a cache that is enough as soon as it holds one bar, whatever min_bars is
CacheIsEnoughWithOne(have_dates, min_bars) == have_dates # {}

\* get_daily_range, line 88: the cached bars are returned; the range is not looked at
CacheIsEnough(have_dates, min_bars) ==
    Cardinality(have_dates) >= (IF min_bars > 1 THEN min_bars ELSE 1)

\* get_daily_range, line 90: max(timestamps)
NewestTimestamp(store, symbol, have_dates) ==
    CHOOSE t \in {store[MarketKey(symbol, d)].value.data_timestamp : d \in have_dates} :
        \A d \in have_dates : store[MarketKey(symbol, d)].value.data_timestamp <= t

\* StooqMarketDataProvider.fetch_daily, lines 39-41: the bars of the range
FetchDaily(start, end) == provider \cap DateRange(start, end)

\* a write-back that keeps the entry a date already has
RECURSIVE CacheBarsKeeping(_, _, _, _)
CacheBarsKeeping(store, symbol, days, time) ==
    IF days = {} THEN store
    ELSE LET d == CHOOSE e \in days : TRUE
         IN  CacheBarsKeeping(IF MarketKey(symbol, d) \in DOMAIN store THEN store
                              ELSE set_json(store, MarketKey(symbol, d),
                                            [date |-> d, data_timestamp |-> time],
                                            ServiceTTL, time),
                              symbol, days \ {d}, time)

\* MarketDataService._cache_bars
RECURSIVE CacheBars(_, _, _, _)
CacheBars(store, symbol, days, time) ==
    IF days = {} THEN store
    ELSE LET d == CHOOSE e \in days : TRUE
         IN  CacheBars(set_json(store, MarketKey(symbol, d),
                                [date |-> d, data_timestamp |-> time],
                                ServiceTTL, time),
                       symbol, days \ {d}, time)

\* StooqMarketDataProvider.name
ProviderName == "stooq"

MarketData(days, data_timestamp) ==
    [bars |-> SortedDays(days), data_timestamp |-> data_timestamp,
     source |-> ProviderName]

\* MarketDataService.get_daily_range; provider_ok is whether the provider answers
get_daily_range(symbol, start, end, min_bars, provider_ok) ==
    LET arg == [start |-> start, end |-> end, min_bars |-> min_bars]
        days == DateRange(start, end)
        have_dates == HaveDates(cache_store, symbol, days, now)
        looked_up == LookedUp(cache_store, symbol, days, now)
    IN  IF CacheIsEnough(have_dates, min_bars)
        THEN /\ cache_store' = looked_up
             /\ ret' = Returned("get_daily_range", arg,
                                MarketData(have_dates,
                                           NewestTimestamp(cache_store, symbol, have_dates)))
             /\ UNCHANGED fetch_calls
        ELSE /\ fetch_calls' = fetch_calls + 1
             /\ IF provider_ok
                THEN /\ cache_store' = CacheBars(looked_up, symbol,
                                                 FetchDaily(start, end), now)
                     /\ ret' = Returned("get_daily_range", arg,
                                        MarketData(FetchDaily(start, end), now))
                ELSE /\ cache_store' = looked_up
                     /\ ret' = Raised("get_daily_range", arg, "HTTPError")

MarketFrame ==
    UNCHANGED <<storage_backend, cache_backend, current_state, checkpoints, files,
                uuid_count, aliases, n_updates, linear, prev_step, thread_vars,
                session_pc, script_pc, cache_vars, provider, snapshots, writer,
                rule_case, analysis>>

InitMarket ==
    /\ InitManager
    /\ storage_backend = "none" /\ cache_backend
    /\ IdleCallers
    /\ provider \in ProviderData
    /\ fetch_calls = 0
    /\ snapshots = NoSnapshots
    /\ writer = NoWriters
    /\ rule_case = NoRuleCase
    /\ analysis = NoAnalysis

GetDailyRange ==
    /\ fetch_calls < MaxFetchCalls
    /\ \E start \in Days, end \in Days, min_bars \in MinBars, provider_ok \in BOOLEAN :
          /\ start <= end
          /\ get_daily_range(Symbol, start, end, min_bars, provider_ok)
    /\ UNCHANGED now
    /\ MarketFrame

\* time.time() moves on between two requests
MarketTick ==
    /\ now < MaxMarketClock
    /\ now' = now + 1
    /\ ret' = Returned("tick", NoneVal, NoneVal)
    /\ UNCHANGED <<cache_store, fetch_calls>>
    /\ MarketFrame

\* the upstream feed is revised between two requests: Stooq adds or withdraws the
\* bar of a day
ReviseProvider ==
    /\ provider' \in ProviderData \ {provider}
    /\ ret' = Returned("revise", NoneVal, NoneVal)
    /\ UNCHANGED <<storage_backend, cache_backend, current_state, checkpoints, files,
                   cache_store, now, uuid_count, aliases, n_updates, linear, prev_step,
                   thread_vars, session_pc, script_pc, cache_vars, fetch_calls,
                   snapshots, writer, rule_case, analysis>>

NextMarket ==
    \/ GetDailyRange
    \/ MarketTick
    \/ ReviseProvider

SpecMarket == InitMarket /\ [][NextMarket]_vars

----------------------------------------------------------------------------
(* build_snapshot and _persist_snapshot, called by two writers (threads or
   processes) that share the snapshots directory.

   A float is [tenths |-> t, e13 |-> r], the number t/10 + r/10^13 with -5 < r < 5;
   a dict is the sequence of its <<key, value>> pairs in insertion order. *)

Writers == {1, 2}

Float(tenths, e13) == [tenths |-> tenths, e13 |-> e13]
\* -0.1, a float next to it, and -0.2
MaxDrawdowns == {Float(-1, 0), Float(-1, -1), Float(-2, 0)}

\* RiskFlag.evidence of one flag, built in either order or with another value
Evidences ==
    { << <<"field", "max_drawdown">>, <<"value", "low">> >>,
      << <<"value", "low">>, <<"field", "max_drawdown">> >>,
      << <<"field", "max_drawdown">>, <<"value", "high">> >> }

\* the arguments of build_snapshot that the model follows
SnapshotInputs ==
    [symbol : {"AAPL"}, max_drawdown : MaxDrawdowns, evidence : Evidences]

\* the order of str(k) for the keys in use
KeyRank(k) == IF k = "field" THEN 1 ELSE 2

\* a dict that is left in insertion order
UnsortedItems(pairs) == pairs

\* _stable, line 33 of utils.py: sorted(obj.items(), key=lambda kv: str(kv[0]))
RECURSIVE SortedItems(_)
SortedItems(pairs) ==
    IF pairs = <<>> THEN <<>>
    ELSE LET i == CHOOSE j \in 1..Len(pairs) :
                    \A k \in 1..Len(pairs) : KeyRank(pairs[j][1]) <= KeyRank(pairs[k][1])
             rest == [k \in 1..(Len(pairs) - 1) |->
                         IF k < i THEN pairs[k] ELSE pairs[k + 1]]
         IN  <<pairs[i]>> \o SortedItems(rest)

\* _stable, lines 36-37 of utils.py: round(obj, 12)
Round12(x) ==
    [tenths |-> x.tenths,
     e12 |-> IF x.e13 > 5 THEN 1 ELSE IF x.e13 < -5 THEN -1 ELSE 0]

\* canonical_dumps of the seed of build_snapshot
CanonicalDumps(inputs) ==
    [symbol |-> inputs.symbol,
     technicals |-> [max_drawdown |-> Round12(inputs.max_drawdown)],
     rules |-> [evidence |-> SortedItems(inputs.evidence)]]

\* _hash_seed: sha256 of the canonical text, taken to have no collisions
HashSeed(inputs) == [sha256 |-> CanonicalDumps(inputs)]

\* json_dumps(snapshot.model_dump(mode="json")): floats and key order as given
SnapshotText(inputs) ==
    [analysis_id |-> HashSeed(inputs), symbol |-> inputs.symbol,
     max_drawdown |-> inputs.max_drawdown, evidence |-> inputs.evidence]

\* out.exists() that never finds the file
FileNeverExists(analysis_id) == FALSE

\* _persist_snapshot, line 424: out.exists()
FileExists(analysis_id) == analysis_id \in DOMAIN snapshots

\* _persist_snapshot, line 426: out.write_text(...)
WrittenFile(analysis_id, text) ==
    IF analysis_id \in DOMAIN snapshots
    THEN [snapshots[analysis_id] EXCEPT !.content = text, !.writes = @ + 1]
    ELSE [content |-> text, first |-> text, writes |-> 1]

SnapshotFrame ==
    UNCHANGED <<storage_backend, cache_backend, current_state, checkpoints, files,
                cache_store, now, uuid_count, aliases, n_updates, linear, prev_step,
                thread_vars, session_pc, script_pc, cache_vars, provider, fetch_calls,
                rule_case, analysis>>

\* build_snapshot up to the snapshot object; persist is `persist_dir is not None`
build_snapshot(w, persist) ==
    /\ writer[w].pc = "start"
    /\ writer' = [writer EXCEPT ![w].pc = IF persist THEN "built" ELSE "done",
                                ![w].analysis_id = HashSeed(writer[w].inputs)]
    /\ ret' = Returned("build_snapshot", [writer |-> w, persist |-> persist],
                       [analysis_id |-> HashSeed(writer[w].inputs)])
    /\ UNCHANGED snapshots

\* _persist_snapshot, lines 421-425: mkdir, the test of out.exists(), the return
persist_exists(w) ==
    /\ writer[w].pc = "built"
    /\ writer' = [writer EXCEPT ![w].pc = IF FileExists(writer[w].analysis_id)
                                          THEN "done" ELSE "checked"]
    /\ ret' = Returned("out.exists", [writer |-> w],
                       [exists |-> FileExists(writer[w].analysis_id)])
    /\ UNCHANGED snapshots

\* _persist_snapshot, line 426
persist_write(w) ==
    /\ writer[w].pc = "checked"
    /\ snapshots' = DictSet(snapshots, writer[w].analysis_id,
                            WrittenFile(writer[w].analysis_id,
                                        SnapshotText(writer[w].inputs)))
    /\ writer' = [writer EXCEPT ![w].pc = "done"]
    /\ ret' = Returned("out.write_text", [writer |-> w], NoneVal)

\* the writer persists its snapshot once more
persist_again(w) ==
    /\ writer[w].pc = "done"
    /\ writer' = [writer EXCEPT ![w].pc = "built"]
    /\ ret' = Returned("_persist_snapshot", [writer |-> w], NoneVal)
    /\ UNCHANGED snapshots

InitSnapshot ==
    /\ InitManager
    /\ storage_backend = "none" /\ ~cache_backend
    /\ IdleCallers
    /\ provider = NoProvider
    /\ fetch_calls = 0
    /\ snapshots = NoSnapshots
    /\ writer \in [Writers -> [pc : {"start"}, inputs : SnapshotInputs,
                               analysis_id : {NoneVal}]]
    /\ rule_case = NoRuleCase
    /\ analysis = NoAnalysis

BuildSnapshot ==
    /\ \E w \in Writers, persist \in BOOLEAN : build_snapshot(w, persist)
    /\ SnapshotFrame

PersistExists ==
    /\ \E w \in Writers : persist_exists(w)
    /\ SnapshotFrame

PersistWrite ==
    /\ \E w \in Writers : persist_write(w)
    /\ SnapshotFrame

PersistAgain ==
    /\ \E w \in Writers : persist_again(w)
    /\ SnapshotFrame

NextSnapshot ==
    \/ BuildSnapshot
    \/ PersistExists
    \/ PersistWrite
    \/ PersistAgain

SpecSnapshot == InitSnapshot /\ [][NextSnapshot]_vars

----------------------------------------------------------------------------
(* apply_risk_rules over a rule table and the two metric objects; a dotted field
   name is the pair of its parts, a metric value is a number or None *)

SupportedOps == {"<=", "<", ">=", ">", "=="}
\* the operators found in the rule tables that are tried
RuleOps == SupportedOps \cup {"!="}
RuleFields ==
    {<<"technicals", "max_drawdown">>, <<"risk", "sharpe_20">>, <<"risk", "beta">>}
Rule(code, field, op, threshold) ==
    [code |-> code, field |-> field, op |-> op, threshold |-> threshold]
Rules == {Rule("RULE", field, op, 0) : field \in RuleFields, op \in RuleOps}
\* rule tables of one rule, and of a rule after DRAWDOWN_HIGH
\* rules.py RISK_RULES_V1; thresholds and metric values are in hundredths
RISK_RULES_V1 ==
    <<Rule("DRAWDOWN_HIGH", <<"technicals", "max_drawdown">>, "<=", -20),
      Rule("VOLATILITY_HIGH", <<"technicals", "volatility_20">>, ">=", 4),
      Rule("SHARPE_NEGATIVE", <<"risk", "sharpe_20">>, "<", 0),
      Rule("VAR_TAIL_RISK", <<"risk", "var_95_20">>, "<=", -5)>>
\* constants.py
RISK_RULES_VERSION == "risk_rules_v1"
RuleTables ==
    {<<r>> : r \in Rules}
        \cup {<<Rule("DRAWDOWN_HIGH", <<"technicals", "max_drawdown">>, "<=", -2), r>> :
                 r \in Rules}
        \cup {RISK_RULES_V1}
MetricValues == {NoneVal, [float |-> -20], [float |-> 0], [float |-> 4]}

\* _get_field
GetField(ctx, dotted) ==
    IF dotted[1] \notin DOMAIN ctx THEN NoneVal
    ELSE IF dotted[2] \notin DOMAIN ctx[dotted[1]] THEN NoneVal
    ELSE ctx[dotted[1]][dotted[2]]

\* a comparison that holds whatever the value is
CompareAlways(v, op, t) == TRUE

\* _compare, for an operator of the table `ops`
Compare(v, op, t) ==
    CASE op = "<=" -> v <= t
      [] op = "<" -> v < t
      [] op = ">=" -> v >= t
      [] op = ">" -> v > t
      [] op = "==" -> v = t

\* lines 57-64: RiskFlag(code=..., evidence={"field", "value", "threshold"})
RiskFlag(rule, value) ==
    [code |-> rule.code,
     evidence |-> [field |-> rule.field, value |-> value.float,
                   threshold |-> rule.threshold]]

\* apply_risk_rules, lines 52-65: the rules from the i-th on, after `flags`
RECURSIVE EvaluateFrom(_, _, _, _)
EvaluateFrom(rules, i, ctx, flags) ==
    IF i > Len(rules) THEN [status |-> "ok", flags |-> flags]
    ELSE LET rule == rules[i]
             value == GetField(ctx, rule.field)
         IN  IF value = NoneVal THEN EvaluateFrom(rules, i + 1, ctx, flags)
             ELSE IF rule.op \notin SupportedOps
             THEN [status |-> "error", flags |-> flags]
             ELSE IF Compare(value.float, rule.op, rule.threshold)
             THEN EvaluateFrom(rules, i + 1, ctx, Append(flags, RiskFlag(rule, value)))
             ELSE EvaluateFrom(rules, i + 1, ctx, flags)

\* apply_risk_rules
apply_risk_rules ==
    LET ctx == [technicals |-> rule_case.technicals, risk |-> rule_case.risk]
        result == EvaluateFrom(rule_case.rules, 1, ctx, <<>>)
    IN  /\ ~rule_case.applied
        /\ rule_case' = [rule_case EXCEPT !.applied = TRUE]
        /\ ret' = IF result.status = "ok"
                  THEN Returned("apply_risk_rules", NoneVal,
                                [rule_version |-> RISK_RULES_VERSION,
                                 flags |-> result.flags])
                  ELSE Raised("apply_risk_rules", NoneVal, "ValueError")

InitRules ==
    /\ InitManager
    /\ storage_backend = "none" /\ ~cache_backend
    /\ IdleCallers
    /\ provider = NoProvider
    /\ fetch_calls = 0
    /\ snapshots = NoSnapshots
    /\ writer = NoWriters
    /\ rule_case \in [rules : RuleTables,
                      technicals : [max_drawdown : MetricValues,
                                    volatility_20 : MetricValues],
                      risk : [sharpe_20 : MetricValues, var_95_20 : MetricValues],
                      applied : {FALSE}]
    /\ analysis = NoAnalysis

ApplyRiskRules ==
    /\ apply_risk_rules
    /\ UNCHANGED <<storage_backend, cache_backend, current_state, checkpoints, files,
                   cache_store, now, uuid_count, aliases, n_updates, linear, prev_step,
                   thread_vars, session_pc, script_pc, cache_vars, provider,
                   fetch_calls, snapshots, writer, analysis>>

NextRules == ApplyRiskRules

SpecRules == InitRules /\ [][NextRules]_vars

----------------------------------------------------------------------------
(* StockResearchAgent.analyze with a state manager: init_state and the "init"
   checkpoint, then the pipeline stages, each a computation that may raise, an
   update_state and a save_checkpoint *)

\* how many analyze calls one agent is followed through
MaxAnalyses == 2

AnalyzeQueries == {"AAPL", "MSFT"}

\* the node_name of the checkpoint that ends each stage; "financials" has none
StageNames ==
    <<"identify", "fetch_market_data", "compute_metrics", "apply_rules", "financials",
      "snapshot_built", "llm_explain">>
FinancialsStage == 5
LastStage == Len(StageNames)

\* the field each stage writes with update_state
StageKey(stage) ==
    <<"target", "data_store", "analytic_metrics", "rules_violations", "data_store",
      "final_snapshot", "messages">>[stage]

SnapshotValue == [analysis_id |-> "sha256"]

StageValue(stage) ==
    IF StageKey(stage) = "final_snapshot" THEN SnapshotValue
    ELSE CHOOSE v \in PipelineInputs(StageKey(stage)) : TRUE

NodeName(stage) == IF stage = 0 THEN "init" ELSE StageNames[stage]

AnalysisRaised == [analysis EXCEPT !.pc = "raised"]

\* analyze, lines 58-59
analyze_init(query, thread_id) ==
    /\ analysis.pc \in {"idle", "raised", "done"}
    /\ analysis.runs < MaxAnalyses
    /\ init_state(query, thread_id)
    /\ analysis' = [pc |-> "save", stage |-> 0, query |-> query,
                    runs |-> analysis.runs + 1,
                    \* whether the thread has no checkpoint when the run starts,
                    \* and whether the run has written financials
                    fresh |-> (thread_id = NoThread \/ History(thread_id) = <<>>),
                    financials |-> FALSE]

\* analyze, lines 60, 66, 78, 92, 99, 141 and build_snapshot, line 410
analyze_save(io_ok) ==
    /\ analysis.pc = "save"
    /\ save_checkpoint(NodeName(analysis.stage), io_ok)
    /\ analysis' = IF ret'.status # "ok" THEN AnalysisRaised
                   ELSE IF analysis.stage = LastStage
                   THEN [analysis EXCEPT !.pc = "done"]
                   ELSE [analysis EXCEPT !.pc = "step", !.stage = @ + 1]

\* a stage's computation and its update_state; ok is whether the computation
\* (resolve, get_daily_range, the metrics, the rules, build_snapshot up to line 405,
\* explain_snapshot) returns
analyze_step(ok) ==
    /\ analysis.pc = "step"
    /\ analysis.stage # FinancialsStage
    /\ IF ok
       THEN /\ update_state(StageKey(analysis.stage), StageValue(analysis.stage),
                            StageKey(analysis.stage) = "messages")
            /\ analysis' = IF ret'.status = "ok" THEN [analysis EXCEPT !.pc = "save"]
                           ELSE AnalysisRaised
       ELSE /\ ret' = Raised("analyze", [stage |-> NodeName(analysis.stage)], "Exception")
            /\ analysis' = AnalysisRaised
            /\ UNCHANGED <<manager_vars, now, uuid_count, aliases, n_updates, linear>>

\* analyze, lines 102-112: without a financials service, or when it raises, nothing
\* is written; otherwise data_store is updated, and no checkpoint is saved
analyze_financials(fetched) ==
    /\ analysis.pc = "step"
    /\ analysis.stage = FinancialsStage
    /\ IF fetched
       THEN update_state("data_store", StageValue(FinancialsStage), FALSE)
       ELSE /\ ret' = Returned("analyze", [stage |-> "financials"], NoneVal)
            /\ UNCHANGED <<manager_vars, now, uuid_count, aliases, n_updates, linear>>
    /\ analysis' = [analysis EXCEPT !.stage = @ + 1, !.financials = fetched]

AgentFrame ==
    /\ prev_step' = IF current_state = NoneVal THEN -1 ELSE StepIndexOf(current_state)
    /\ UNCHANGED <<storage_backend, cache_backend, thread_vars, session_pc, script_pc,
                   cache_vars, provider, fetch_calls, snapshots, writer, rule_case>>

AnalyzeInit ==
    /\ \E query \in AnalyzeQueries, thread_id \in {T1, NoThread} :
          analyze_init(query, thread_id)
    /\ AgentFrame

AnalyzeSave ==
    /\ \E io_ok \in BOOLEAN : analyze_save(io_ok)
    /\ AgentFrame

AnalyzeStep ==
    /\ \E ok \in BOOLEAN : analyze_step(ok)
    /\ AgentFrame

AnalyzeFinancials ==
    /\ \E fetched \in BOOLEAN : analyze_financials(fetched)
    /\ AgentFrame

NextAgent ==
    \/ AnalyzeInit
    \/ AnalyzeSave
    \/ AnalyzeStep
    \/ AnalyzeFinancials

SpecAgent == Init /\ [][NextAgent]_vars

----------------------------------------------------------------------------
(* One caller that updates the fields of the state with single values and lists,
   valid and invalid, with and without append *)

UserMsg == [role |-> "user", content |-> "question"]
\* a message whose role is none of the Literal's
ToolMsg == [role |-> "tool", content |-> "output"]
OtherViolation == [code |-> "DRAWDOWN_HIGH", severity |-> "high"]

FieldInputs(key) ==
    CASE key = "query" -> {UpdatedQuery, NotAStr}
      [] key = "data_store" -> {StoreDate, NotADict}
      [] key = "messages" ->
            {SingleValue(AssistantMsg), ListValue(<<UserMsg, AssistantMsg>>),
             SingleValue(ToolMsg)}
      [] key = "rules_violations" ->
            {SingleValue(Violation), ListValue(<<OtherViolation, Violation>>),
             ListValue(<<BadViolation>>)}
      [] key = "snapshot_metadata" -> {MetaValue("dict"), MetaValue("none")}
      [] OTHER -> {NotAStr}

FieldKeys ==
    {"query", "data_store", "messages", "rules_violations", "snapshot_metadata",
     "no_such_field"}

UpdateField ==
    /\ ClockLeft
    /\ \E key \in FieldKeys :
          \E value \in FieldInputs(key), append \in BOOLEAN :
              update_state(key, value, append)
    /\ CallerFrame

SaveUnnamed ==
    /\ ClockLeft
    /\ save_checkpoint("", TRUE)
    /\ CallerFrame

NextUpdates ==
    \/ InitStateT1
    \/ UpdateField
    \/ SaveUnnamed

SpecUpdates == Init /\ [][NextUpdates]_vars

----------------------------------------------------------------------------
(* Properties of the manager driven by one caller *)

Active == current_state # NoneVal

HasStep(state, k) ==
    state.snapshot_metadata # NoneVal /\ state.snapshot_metadata.step_index = k

\* C1: after init_state, with no rollback since, the active state's step_index
\* equals the number of update_state calls that have completed, whichever field
\* each of them named.
C1_StepIndexCountsUpdates ==
    (Active /\ n_updates >= 0) => StepIndexOf(current_state) = n_updates

\* C3: a rollback that succeeds makes the active state, and the state it returns,
\* equal to the first checkpoint in the active thread's history whose step_index
\* is the requested one, node_name and timestamp included; a get_state that
\* follows returns that same state.
C3_RollbackRestoresFirstMatch ==
    [][ /\ (Active /\ ret'.op = "rollback" /\ ret'.status = "ok") =>
             LET h == History(current_state.thread_id)
                 k == ret'.arg.step_index
             IN  \E i \in 1..Len(h) :
                    /\ HasStep(h[i], k)
                    /\ \A j \in 1..(i - 1) : ~HasStep(h[j], k)
                    /\ current_state' = h[i]
                    /\ ret'.val.state = h[i]
                    /\ checkpoints' = checkpoints
        /\ (ret.op = "rollback" /\ ret.status = "ok" /\ ret'.op = "get_state") =>
             ret'.val.state = ret.val.state
      ]_vars

\* C3 witness: a rollback succeeded on a history holding two checkpoints at the
\* requested step that differ, so that first and last match are told apart.
C3_Witness ==
    /\ Active /\ ret.op = "rollback" /\ ret.status = "ok"
    /\ LET h == History(current_state.thread_id)
       IN  \E i, j \in 1..Len(h) :
              /\ i < j /\ h[i] # h[j]
              /\ HasStep(h[i], ret.arg.step_index)
              /\ HasStep(h[j], ret.arg.step_index)

C6_ThreadIdNeverChanges ==
    [][ (Active /\ current_state' # NoneVal /\ ret'.op # "init_state")
        => current_state'.thread_id = current_state.thread_id ]_vars

StrictlyIncreasing(h) ==
    \A i, j \in 1..Len(h) : i < j => StepIndexOf(h[i]) < StepIndexOf(h[j])

\* C7: every thread's checkpoint history is strictly increasing in
\* step_index in save order.
C7_HistoryStrictlyIncreasing ==
    \A t \in DOMAIN checkpoints : StrictlyIncreasing(checkpoints[t])

Durable == storage_backend = "dir" \/ cache_backend

\* C10: on a manager with a storage directory or a cache backend, load_checkpoint
\* of the id save_checkpoint just returned succeeds and returns the checkpoint that
\* was saved.
C10_LoadReturnsWhatWasSaved ==
    [][ ( /\ Durable /\ Active
          /\ ret.op = "save_checkpoint" /\ ret.status = "ok"
          /\ ret'.op = "load_checkpoint"
          /\ ret'.arg.checkpoint_id = ret.val.checkpoint_id )
        => /\ ret'.status = "ok"
           /\ LET h == History(current_state.thread_id)
              IN  ret'.val.state = h[Len(h)] ]_vars

\* C9: a caller that mutates a value the manager returned changes neither the
\* active state nor any checkpoint of the history.
C9_ReturnedValuesShareNothing ==
    [][ ret'.op = "caller_mutation" =>
          (current_state' = current_state /\ checkpoints' = checkpoints) ]_vars

\* C14: update_state, save_checkpoint and rollback called before any init_state
\* each raise ValueError to the caller, and the manager stays as constructed: no
\* active state, no checkpoint history, nothing in the directory or the cache.
C14_UninitializedCallsFail ==
    [][ (current_state = NoneVal
           /\ ret'.op \in {"update_state", "save_checkpoint", "rollback"}) =>
          /\ ret'.status = "error"
          /\ ret'.val.error = "ValueError"
          /\ current_state' = NoneVal
          /\ checkpoints' = <<>> /\ files' = <<>> /\ cache_store' = <<>>
      ]_vars

\* a save_checkpoint on a manager that was never initialised has raised
C14_Witness ==
    /\ current_state = NoneVal
    /\ ret.op = "save_checkpoint" /\ ret.status = "error"
    /\ checkpoints = <<>> /\ files = <<>>

\* C15: a rollback to a step at which the in-memory history of the active
\* state's own thread holds no checkpoint raises ValueError, whatever the
\* histories of other threads and the directory hold, and leaves the active
\* state, every history, the directory and the cache as they were.
C15_RollbackNotFound ==
    [][ ( /\ Active /\ ret'.op = "rollback"
          /\ LET t == current_state.thread_id
             IN  t \in DOMAIN checkpoints =>
                    \A i \in 1..Len(checkpoints[t]) :
                        ~HasStep(checkpoints[t][i], ret'.arg.step_index) )
        => /\ ret'.status = "error"
           /\ ret'.val.error = "ValueError"
           /\ UNCHANGED manager_vars
      ]_vars

\* a rollback has failed although the history of another thread, and a file of
\* the directory, hold a checkpoint at the requested step
C15_Witness ==
    /\ Active /\ ret.op = "rollback" /\ ret.status = "error"
    /\ files # <<>>
    /\ \E t \in DOMAIN checkpoints :
          /\ t # current_state.thread_id
          /\ \E i \in 1..Len(checkpoints[t]) :
                HasStep(checkpoints[t][i], ret.arg.step_index)

\* C16: init_state makes the active state, and returns, a state at step_index 0
\* with node_name "init" whose thread_id is the one given or, when none is given,
\* one generated id; that one id is both the state's thread_id and the thread_id
\* of its snapshot_metadata.
C16_InitRecordsOneThreadId ==
    [][ ret'.op = "init_state" =>
          /\ ret'.status = "ok"
          /\ ret'.val.state = current_state'
          /\ StepIndexOf(current_state') = 0
          /\ NodeNameOf(current_state') = "init"
          /\ ret'.arg.thread_id # NoThread =>
                current_state'.thread_id = ret'.arg.thread_id
          /\ current_state'.snapshot_metadata.thread_id = current_state'.thread_id
      ]_vars

----------------------------------------------------------------------------
(* Properties of concurrent update_state calls *)

\* C2: when NumThreads OS threads each call update_state once on a freshly
\* initialised manager, no call raises, at most one thread is inside the locked
\* read-modify-write at a time, the step_index counts the calls that have
\* completed, and it is exactly NumThreads once all of them have.
C2_NoLostUpdate ==
    /\ \A t \in Threads : pc[t] # "raised"
    /\ \A t \in Threads : pc[t] \in InsideLock => lock_owner = t
    /\ current_state # NoneVal =>
          StepIndexOf(current_state) = Cardinality({t \in Threads : pc[t] = "done"})
    /\ (\A t \in Threads : pc[t] = "done") =>
          StepIndexOf(current_state) = NumThreads

\* every thread has completed its call and the step_index is NumThreads
C2_Witness ==
    /\ \A t \in Threads : pc[t] = "done"
    /\ current_state # NoneVal
    /\ StepIndexOf(current_state) = NumThreads
    /\ \E t \in Threads : state_dict[t].key = "query"

----------------------------------------------------------------------------
(* Properties of the identify / edit / rollback sequence *)

\* what list_checkpoints reports of an entry
Listed(entry) == <<entry.node_name, entry.step_index>>

\* C4 as stated: after init_state("AAPL", "t1"), update_state("target", identity),
\* save_checkpoint("identify"), update_state("query", "updated"),
\* save_checkpoint("edit"), the call rollback(0) succeeds and restores step_index
\* 0 and the query "AAPL", and list_checkpoints("t1") lists "identify" at step 0
\* and "edit" at step 1.
C4_RollbackToStepZero ==
    /\ (script_pc = 6 /\ ret.op = "rollback" /\ ret.arg.step_index = 0) =>
          /\ ret.status = "ok"
          /\ StepIndexOf(current_state) = 0
          /\ current_state.query = "AAPL"
    /\ (script_pc = 6 /\ ret.op = "list_checkpoints") =>
          /\ Len(ret.val.entries) = 2
          /\ Listed(ret.val.entries[1]) = <<"identify", 0>>
          /\ Listed(ret.val.entries[2]) = <<"edit", 1>>

\* C4, amended: after the same five calls, "identify" is saved at step 1 and
\* "edit" at step 2; rollback(1) succeeds and restores step_index 1, the query
\* "AAPL" and the identified target; rollback(0) raises ValueError and leaves the
\* active state at step 2 with the query "updated"; list_checkpoints("t1") lists
\* "identify" at step 1 and "edit" at step 2 whichever rollback was asked for.
C4_RollbackToSavedStep ==
    /\ (script_pc = 6 /\ ret.op = "rollback" /\ ret.arg.step_index = 1) =>
          /\ ret.status = "ok"
          /\ StepIndexOf(current_state) = 1
          /\ current_state.query = "AAPL"
          /\ current_state.target = IdentityAAPL
          /\ NodeNameOf(current_state) = "identify"
    /\ (script_pc = 6 /\ ret.op = "rollback" /\ ret.arg.step_index = 0) =>
          /\ ret.status = "error"
          /\ ret.val.error = "ValueError"
          /\ StepIndexOf(current_state) = 2
          /\ current_state.query = UpdatedQuery
    /\ (script_pc >= 5 /\ ret.op = "list_checkpoints") =>
          /\ Len(ret.val.entries) = 2
          /\ Listed(ret.val.entries[1]) = <<"identify", 1>>
          /\ Listed(ret.val.entries[2]) = <<"edit", 2>>

\* the sequence has ended with a successful rollback(1) and the checkpoints have
\* been listed after it
C4_Witness ==
    /\ script_pc = 6
    /\ ret.op = "list_checkpoints"
    /\ Len(ret.val.entries) = 2
    /\ current_state # NoneVal
    /\ StepIndexOf(current_state) = 1
    /\ current_state.query = "AAPL"

----------------------------------------------------------------------------
(* Properties of two sessions sharing one manager *)

\* the state holds only what the session that owns thread_id has written
OwnedBy(state, thread_id) ==
    \E s \in Sessions :
        /\ SessionThread(s) = thread_id
        /\ state.thread_id = thread_id
        /\ state.query = SessionQuery(s)
        /\ state.target \in {NoneVal, SessionIdentity(s)}

\* C8: when two sessions with distinct thread ids drive one manager, the active
\* state holds only data of the session whose thread_id it carries, and every
\* checkpoint stored under a thread_id holds only data of the session owning it.
C8_SessionsAreIsolated ==
    /\ current_state # NoneVal => OwnedBy(current_state, current_state.thread_id)
    /\ \A thread_id \in DOMAIN checkpoints :
          \A i \in 1..Len(checkpoints[thread_id]) :
              OwnedBy(checkpoints[thread_id][i], thread_id)

----------------------------------------------------------------------------
(* Properties of the checkpoint directory *)

\* the fields of a stored checkpoint other than its step metadata
DataFields(doc) == [f \in FieldNames \ {"snapshot_metadata"} |-> doc[f]]

\* C11: a save_checkpoint that writes a file which the directory already holds
\* leaves the data fields stored in that file as they were.
C11_StoredDataNeverChanges ==
    [][ \A name \in DOMAIN files \cap DOMAIN files' :
           DataFields(files'[name]) = DataFields(files[name]) ]_vars

\* C12: load_checkpoint returns the stored state for a checkpoint file of thread
\* t1 stored under either name, the one with ":" or the one with "__", both when
\* given the id written with ":" and when given the id written with "__".
C12_LoadAcceptsEitherDelimiter ==
    [][ ret'.op = "load_checkpoint" =>
          \A k \in {0, 1} :
             LET checkpoint_id == CheckpointId(T1, k)
                 stored == {name \in {SafeFileName(checkpoint_id),
                                      LegacyFileName(checkpoint_id)} :
                               name \in DOMAIN files}
             IN  ( /\ ret'.arg.checkpoint_id \in
                         {checkpoint_id, WithUnderscores(checkpoint_id)}
                   /\ stored # {} )
                 => /\ ret'.status = "ok"
                    /\ ret'.val.state \in {Deserialize(files[name]) : name \in stored}
      ]_vars

----------------------------------------------------------------------------
(* Properties of the JSON cache *)

\* the ttl of the last set_json on the key was positive and has run out
Elapsed(key) ==
    /\ key \in DOMAIN last_set
    /\ last_set[key].ttl_seconds > 0
    /\ now > last_set[key].at + last_set[key].ttl_seconds

\* C17: a get_json on the in-memory cache, issued after a set_json(key, v, ttl)
\* with no later set_json on that key and no change of v by the caller, returns
\* exactly v when fewer than ttl seconds have passed, and at any time when ttl = 0.
C17_GetReturnsWhatWasSet ==
    [][ ret'.op = "get_json" =>
          LET key == ret'.arg.key
          IN  ( /\ key \in DOMAIN last_set
                /\ last_set[key].intact
                /\ \/ last_set[key].ttl_seconds = 0
                   \/ now < last_set[key].at + last_set[key].ttl_seconds )
              => ret'.val.memory = [value |-> last_set[key].value]
      ]_vars

\* a get_json has returned the value of a set_json with a positive ttl that has
\* not run out
C17_Witness ==
    /\ ret.op = "get_json"
    /\ ret.arg.key \in DOMAIN last_set
    /\ last_set[ret.arg.key].ttl_seconds > 0
    /\ last_set[ret.arg.key].intact
    /\ ret.val.memory = [value |-> StoreDate]

\* C18: on the in-memory cache, a get_json on a key whose positive ttl has run
\* out returns None and removes the entry, leaving the key as one that was never
\* set (a get_json on a key that is not stored returns None and changes nothing);
\* an entry leaves the store only by such a get_json on its own key; and a
\* get_json on one key leaves the entry of every other key as it was.
C18_LazyEviction ==
    [][ /\ (ret'.op = "get_json" /\ Elapsed(ret'.arg.key)) =>
             /\ ret'.val.memory = NoneVal
             /\ ret'.arg.key \notin DOMAIN cache_store'
        /\ (ret'.op = "get_json" /\ ret'.arg.key \notin DOMAIN cache_store) =>
             /\ ret'.val.memory = NoneVal
             /\ cache_store' = cache_store
        /\ \A key \in DOMAIN cache_store \ DOMAIN cache_store' :
             ret'.op = "get_json" /\ ret'.arg.key = key /\ Elapsed(key)
        /\ ret'.op = "get_json" =>
             \A key \in CacheKeys \ {ret'.arg.key} :
                /\ key \in DOMAIN cache_store <=> key \in DOMAIN cache_store'
                /\ key \in DOMAIN cache_store => cache_store'[key] = cache_store[key]
      ]_vars

\* a get_json has found its key's ttl run out and removed the entry, while the
\* other key's entry, also run out, is still stored
C18_Witness ==
    /\ ret.op = "get_json"
    /\ Elapsed(ret.arg.key)
    /\ ret.val.memory = NoneVal
    /\ ret.arg.key \notin DOMAIN cache_store
    /\ \E key \in DOMAIN cache_store : Elapsed(key)

\* C19: the in-memory cache and the Redis cache, given the same set_json and
\* get_json calls, ttl_seconds = 0 included, return the same results.
C19_BackendsAgree ==
    ret.op \in {"set_json", "get_json"} => ret.val.memory = ret.val.redis

\* C20: a caller that changes, in place, the object it passed to set_json or
\* got from get_json does not change what the in-memory cache stores for the key.
C20_CacheOwnsItsValues ==
    [][ ret'.op = "cache_mutation" => cache_store' = cache_store ]_vars

----------------------------------------------------------------------------
(* Properties of the checkpoint histories *)

\* the history h is the beginning of the history g
IsPrefixOf(h, g) == Len(h) <= Len(g) /\ SubSeq(g, 1, Len(h)) = h

\* C29: every step of the manager leaves each thread's history as the beginning
\* of that thread's history afterwards (no entry is removed, reordered or changed,
\* after rollback and init_state too); the histories change only in a
\* save_checkpoint, and a save_checkpoint on an initialised manager appends exactly
\* one entry to the history of the active state's thread_id and leaves every other
\* thread's history as it was.
C29_HistoriesAppendOnly ==
    [][ /\ \A tid \in DOMAIN checkpoints :
              tid \in DOMAIN checkpoints' /\ IsPrefixOf(checkpoints[tid], checkpoints'[tid])
        /\ checkpoints' # checkpoints => ret'.op = "save_checkpoint"
        /\ (ret'.op = "save_checkpoint" /\ current_state # NoneVal) =>
              LET active == current_state.thread_id
              IN  /\ active \in DOMAIN checkpoints'
                  /\ Len(checkpoints'[active]) = Len(History(active)) + 1
                  /\ \A tid \in DOMAIN checkpoints' \ {active} :
                        tid \in DOMAIN checkpoints /\ checkpoints'[tid] = checkpoints[tid]
      ]_vars

\* a rollback has succeeded on a manager that holds a history of two checkpoints
C29_Witness ==
    /\ ret.op = "rollback"
    /\ ret.status = "ok"
    /\ \E tid \in DOMAIN checkpoints : Len(checkpoints[tid]) >= 2

\* C30: a save_checkpoint on an initialised manager leaves the active state as it
\* was (node_name, timestamp and step_index included); the node_name given and the
\* new timestamp are in the stored copy; the call returns thread_id:step_index of
\* the active state, also when the history already holds a checkpoint of that
\* thread and step, and fails only when the write to the storage fails.
C30_SaveLeavesActiveState ==
    [][ (ret'.op = "save_checkpoint" /\ current_state # NoneVal) =>
          LET active == current_state.thread_id
              meta == current_state.snapshot_metadata
              step_index == IF meta = NoneVal THEN 0 ELSE meta.step_index
              stored == checkpoints'[active][Len(checkpoints'[active])]
          IN  /\ current_state' = current_state
              /\ ret'.status = "ok" =>
                    ret'.val.checkpoint_id = active \o <<":">> \o IntToStr(step_index)
              /\ ret'.status # "ok" => storage_backend # "none" /\ ret'.val.error = "OSError"
              /\ meta # NoneVal =>
                    /\ stored.snapshot_metadata.timestamp = now'
                    /\ stored.snapshot_metadata.node_name =
                          IF ret'.arg.node_name # "" THEN ret'.arg.node_name
                          ELSE meta.node_name
                    /\ stored.snapshot_metadata.step_index = meta.step_index
      ]_vars

\* a named save_checkpoint has returned the ID of a thread and step of which the
\* history already held a checkpoint, and the active state still carries "init"
C30_Witness ==
    /\ ret.op = "save_checkpoint"
    /\ ret.status = "ok"
    /\ ret.arg.node_name = "identify"
    /\ current_state # NoneVal
    /\ current_state.snapshot_metadata # NoneVal
    /\ current_state.snapshot_metadata.node_name = "init"
    /\ ret.val.checkpoint_id = CheckpointId(T1, 0)
    /\ Len(History(T1)) >= 2
    /\ History(T1)[1].snapshot_metadata.step_index = 0
    /\ History(T1)[2].snapshot_metadata.step_index = 0
    /\ History(T1)[2].snapshot_metadata.node_name = "identify"

----------------------------------------------------------------------------
(* Properties of the market data service *)

\* the days of the series a request returned
ReturnedDays == {ret.val.bars[i] : i \in 1..Len(ret.val.bars)}

\* C21: the series a get_daily_range call returns holds every day of the requested
\* range that the provider has a bar for, whatever earlier requests left in the
\* cache and whatever min_bars is.
C21_NoMissingTradingDay ==
    (ret.op = "get_daily_range" /\ ret.status = "ok") =>
        provider \cap DateRange(ret.arg.start, ret.arg.end) \subseteq ReturnedDays

\* an entry of the store that get_json no longer returns
Stale(store, key) ==
    key \in DOMAIN store /\ store[key].expires_at # 0 /\ now > store[key].expires_at

\* C22: a get_daily_range call in which the provider fails raises the provider's
\* error, has called the provider once, and has left the cache as it was: no entry
\* is added or changed, and the only entries gone are those that had expired and
\* that the lookups of the request dropped.
C22_ProviderFailurePropagates ==
    [][ (ret'.op = "get_daily_range" /\ ret'.status = "error") =>
          /\ ret'.val.error = "HTTPError"
          /\ fetch_calls' = fetch_calls + 1
          /\ \A key \in DOMAIN cache_store' :
                key \in DOMAIN cache_store /\ cache_store'[key] = cache_store[key]
          /\ \A key \in DOMAIN cache_store \ DOMAIN cache_store' :
                Stale(cache_store, key)
      ]_vars

\* the provider has failed in a request that found a bar of its range in the
\* cache, too few for min_bars, and the bar is still cached
C22_Witness ==
    /\ ret.op = "get_daily_range"
    /\ ret.status = "error"
    /\ ret.arg.min_bars = 2
    /\ \E d \in DateRange(ret.arg.start, ret.arg.end) :
          CacheHit(cache_store, MarketKey(Symbol, d), now)

----------------------------------------------------------------------------
(* Properties of the snapshot builder *)

Built(w) == writer[w].pc # "start"

\* a dict as the mapping it is, whatever the order its keys were inserted in
AsMapping(pairs) == {pairs[i] : i \in 1..Len(pairs)}

\* the two argument lists are equal field by field
FieldIdentical(a, b) ==
    /\ a.symbol = b.symbol
    /\ a.max_drawdown = b.max_drawdown
    /\ AsMapping(a.evidence) = AsMapping(b.evidence)

\* C23: two build_snapshot calls whose arguments are equal field by field give the
\* same analysis_id, whichever writer made them, in whichever order the keys of
\* their dicts were inserted, and whether or not either call persisted.
C23_SameInputsSameId ==
    \A v \in Writers, w \in Writers :
        (Built(v) /\ Built(w) /\ FieldIdentical(writer[v].inputs, writer[w].inputs))
            => writer[v].analysis_id = writer[w].analysis_id

\* two writers have built snapshots from equal arguments whose evidence dicts were
\* filled in different orders, one of them persisted and the other not
C23_Witness ==
    /\ Built(1) /\ Built(2)
    /\ FieldIdentical(writer[1].inputs, writer[2].inputs)
    /\ writer[1].inputs.evidence # writer[2].inputs.evidence
    /\ writer[1].analysis_id \in DOMAIN snapshots
    /\ writer[1].pc = "done" /\ writer[2].pc = "done"
    /\ snapshots[writer[1].analysis_id].writes = 1

\* C24: two build_snapshot calls whose arguments differ in the value of a field
\* that is part of the seed give different analysis_ids.
C24_DifferentInputsDifferentId ==
    \A v \in Writers, w \in Writers :
        (Built(v) /\ Built(w) /\ ~FieldIdentical(writer[v].inputs, writer[w].inputs))
            => writer[v].analysis_id # writer[w].analysis_id

\* C25: a _persist_snapshot call that finds the file of its analysis_id in the
\* directory returns without an error and leaves every file as it was, however
\* often the call is repeated.
C25_PersistExistingIsNoOp ==
    [][ \A w \in Writers :
          ( /\ writer[w].pc = "built"
            /\ writer'[w].pc # "built"
            /\ writer[w].analysis_id \in DOMAIN snapshots )
          => /\ snapshots' = snapshots
             /\ writer'[w].pc = "done"
             /\ ret'.status = "ok"
      ]_vars

\* a writer has persisted its snapshot, then persisted it again and returned, and
\* the file has been written once
C25_Witness ==
    /\ ret.op = "out.exists"
    /\ ret.val.exists
    /\ writer[ret.arg.writer].pc = "done"
    /\ writer[3 - ret.arg.writer].pc = "start"
    /\ snapshots[writer[ret.arg.writer].analysis_id].writes = 1

\* C26: the file of an analysis_id is written at most once and keeps the content
\* of its first writer, also when two writers persist at the same time.
C26_FirstWriterWins ==
    \A analysis_id \in DOMAIN snapshots :
        /\ snapshots[analysis_id].writes <= 1
        /\ snapshots[analysis_id].content = snapshots[analysis_id].first

----------------------------------------------------------------------------
(* Properties of the rule engine *)

\* C27: apply_risk_rules on a rule table that holds a rule with an operator other
\* than <=, <, >=, >, == raises an error, whatever the metrics are, those in which
\* the rule's field is missing or None included.
C27_UnknownOperatorFails ==
    ( /\ ret.op = "apply_risk_rules"
      /\ \E i \in 1..Len(rule_case.rules) : rule_case.rules[i].op \notin SupportedOps )
    => ret.status = "error"

----------------------------------------------------------------------------
(* Properties of the agent *)

\* C28: when analyze has raised after its init_state, the manager holds an active
\* state with the query given to analyze, and the history of the active state's
\* thread holds a checkpoint named "init".
C28_FailedAnalysisKeepsState ==
    analysis.pc = "raised" =>
        /\ current_state # NoneVal
        /\ current_state.query = analysis.query
        /\ History(current_state.thread_id) # <<>>
        /\ \E i \in 1..Len(History(current_state.thread_id)) :
              NodeNameOf(History(current_state.thread_id)[i]) = "init"

\* the second analyze of an agent, for another query than the first, has raised in
\* the computation of its third stage
C28_Witness ==
    /\ analysis.pc = "raised"
    /\ analysis.runs = 2
    /\ analysis.query = "MSFT"
    /\ analysis.stage = 3
    /\ ret.op = "analyze"
    /\ \E i \in 1..Len(History(current_state.thread_id)) :
          History(current_state.thread_id)[i].query = "AAPL"

----------------------------------------------------------------------------
(* Properties of update_state *)

\* the value v of an update_state call as the state holds it afterwards
Given(key, v) ==
    IF key \in ListFields THEN v.items
    ELSE IF key = "snapshot_metadata" THEN v.meta
    ELSE v

\* the elements of v, or v alone when v is not a list
ElementsOf(v) == IF v.is_list THEN v.items ELSE <<v.item>>

Rejected(arg) ==
    CASE arg.key = "no_such_field" -> TRUE
      [] arg.key = "query" -> arg.value = NotAStr
      [] arg.key = "data_store" -> arg.value = NotADict
      [] arg.key \in ListFields ->
            \/ arg.value \in {SingleValue(ToolMsg), ListValue(<<BadViolation>>)}
            \/ ~arg.append /\ ~arg.value.is_list
      [] OTHER -> FALSE

\* C38: on an initialised manager an update_state with a value the schema
\* rejects or a field it does not have raises, with or without append, and an
\* update_state that raises leaves the active state, its step_index and
\* timestamp included, and every history as they were.
C38_FailedUpdateKeepsState ==
    [][ (/\ ret'.op = "update_state"
         /\ current_state # NoneVal
         /\ (Rejected(ret'.arg) \/ ret'.status = "error")) =>
            /\ ret'.status = "error"
            /\ current_state' = current_state
            /\ checkpoints' = checkpoints
            /\ files' = files
      ]_vars

\* an append of a message with a role outside the Literal has raised on a state
\* that is at step 1 with one checkpoint in its history
C38_Witness ==
    /\ ret.op = "update_state"
    /\ ret.status = "error"
    /\ ret.arg.key = "messages"
    /\ ret.arg.append
    /\ ret.arg.value = SingleValue(ToolMsg)
    /\ current_state # NoneVal
    /\ current_state.snapshot_metadata # NoneVal
    /\ current_state.snapshot_metadata.step_index = 1
    /\ \E t \in DOMAIN checkpoints : Len(checkpoints[t]) = 1

-----------------------------------------------------------------------------
(* Properties of get_evidence_chain *)

\* the entries the record carries besides conclusion, thread_id, query and
\* message_trace
TracedEntries(conclusion_key) ==
    IF conclusion_key = "rules_violations"
    THEN {"supporting_metrics", "raw_data", "target"}
    ELSE IF conclusion_key = "analytic_metrics"
    THEN {"raw_data", "target"}
    ELSE {}

\* C32: get_evidence_chain leaves the active state and the histories as they
\* were. On an initialised manager its record carries supporting_metrics,
\* raw_data and target for "rules_violations", raw_data and target but no
\* supporting_metrics for "analytic_metrics", and none of the three for any
\* other key; conclusion is the current value of the named field; and
\* message_trace has one entry per message of the state, in order.
C32_EvidenceChainReadsState ==
    [][ ret'.op = "get_evidence_chain" =>
          /\ current_state' = current_state
          /\ checkpoints' = checkpoints
          /\ files' = files
          /\ current_state # NoneVal =>
                LET key == ret'.arg.conclusion_key
                    evidence == ret'.val
                IN  /\ DOMAIN evidence \cap {"supporting_metrics", "raw_data", "target"}
                          = TracedEntries(key)
                    /\ IF key \in FieldNames
                       THEN evidence.conclusion[key] = current_state[key]
                       ELSE evidence.conclusion = NoneVal
                    /\ "supporting_metrics" \in DOMAIN evidence =>
                          evidence.supporting_metrics = current_state.analytic_metrics
                    /\ "raw_data" \in DOMAIN evidence =>
                          evidence.raw_data = current_state.data_store.market_data
                    /\ "target" \in DOMAIN evidence =>
                          evidence.target = current_state.target
                    /\ Len(evidence.message_trace) = Len(current_state.messages)
                    /\ \A i \in 1..Len(current_state.messages) :
                          evidence.message_trace[i].role = current_state.messages[i].role
      ]_vars

\* the evidence of the violations has been read from a state that holds a
\* violation, metrics, market data and a message
C32_Witness ==
    /\ ret.op = "get_evidence_chain"
    /\ ret.arg.conclusion_key = "rules_violations"
    /\ current_state # NoneVal
    /\ ret.val.conclusion.rules_violations = <<Violation>>
    /\ ret.val.supporting_metrics = SomeMetrics
    /\ Len(ret.val.message_trace) = 1

-----------------------------------------------------------------------------
(* Properties of get_daily_range and its cache *)

\* the days of the range that have an unexpired cache entry when the call starts
UnexpiredDays(start, end) ==
    {d \in DateRange(start, end) : CacheHit(cache_store, MarketKey(Symbol, d), now)}

\* max(min_bars, 1)
Needed(min_bars) == IF min_bars > 1 THEN min_bars ELSE 1

\* C33: get_daily_range calls the provider exactly when fewer than max(min_bars, 1)
\* days of the range have an unexpired cache entry, and then once; when it does
\* not call the provider it returns the cached bars of the range, one per day in
\* increasing order of date, with the newest data_timestamp among them.
C33_ProviderCalledIffCacheTooSmall ==
    [][ ret'.op = "get_daily_range" =>
          LET cached == UnexpiredDays(ret'.arg.start, ret'.arg.end)
              enough == Cardinality(cached) >= Needed(ret'.arg.min_bars)
          IN  /\ fetch_calls' = IF enough THEN fetch_calls ELSE fetch_calls + 1
              /\ enough =>
                    /\ ret'.status = "ok"
                    /\ ret'.val.bars = SortedDays(cached)
                    /\ \A d \in cached :
                          cache_store[MarketKey(Symbol, d)].value.data_timestamp
                              <= ret'.val.data_timestamp
                    /\ \E d \in cached :
                          cache_store[MarketKey(Symbol, d)].value.data_timestamp
                              = ret'.val.data_timestamp
      ]_vars

\* a request for two bars has been answered from a cache that held the three days
\* of the range, written by two fetches at different times
C33_Witness ==
    /\ ret.op = "get_daily_range"
    /\ ret.status = "ok"
    /\ ret.arg.min_bars = 2
    /\ ret.val.bars = <<1, 2, 3>>
    /\ ret.val.data_timestamp = 1
    /\ now = 1
    /\ \E d \in Days : cache_store[MarketKey(Symbol, d)].value.data_timestamp = 0

\* C34: a get_daily_range that calls the provider returns the provider's bars of
\* the whole range and leaves, for every day it returns, a cache entry written by
\* this fetch in place of any entry the day had; no step changes the entry of any
\* other day except to drop it, so that the entry of a day is always the one of
\* the most recent fetch that returned the day.
C34_CacheHoldsNewestFetch ==
    [][ \A d \in Days :
          LET key == MarketKey(Symbol, d)
              fetched == /\ ret'.op = "get_daily_range"
                         /\ ret'.status = "ok"
                         /\ fetch_calls' = fetch_calls + 1
          IN  /\ fetched =>
                    ret'.val.bars =
                        SortedDays(provider \cap DateRange(ret'.arg.start, ret'.arg.end))
              /\ IF fetched /\ \E i \in 1..Len(ret'.val.bars) : ret'.val.bars[i] = d
                 THEN /\ key \in DOMAIN cache_store'
                      /\ cache_store'[key].value = [date |-> d, data_timestamp |-> now]
                      /\ ret'.val.data_timestamp = now
                 ELSE key \in DOMAIN cache_store' =>
                          /\ key \in DOMAIN cache_store
                          /\ cache_store'[key] = cache_store[key]
      ]_vars

\* a fetch at time 1 has replaced the entry a day had from a fetch at time 0
C34_Witness ==
    /\ ret.op = "get_daily_range"
    /\ ret.status = "ok"
    /\ fetch_calls = 2
    /\ now = 1
    /\ ret.val.data_timestamp = 1
    /\ ret.val.bars = <<1, 3>>
    /\ MarketKey(Symbol, 2) \in DOMAIN cache_store
    /\ cache_store[MarketKey(Symbol, 2)].value.data_timestamp = 0
    /\ cache_store[MarketKey(Symbol, 1)].value.data_timestamp = 1

\* C39: a get_daily_range that returns, followed at once by a call with the same
\* range and min_bars that returns, with no tick of the clock and no revision of
\* the feed in between: the second call returns the days the first returned.
C39_RepeatedRequestSameBars ==
    [][ (/\ ret.op = "get_daily_range" /\ ret.status = "ok"
         /\ ret'.op = "get_daily_range" /\ ret'.status = "ok"
         /\ ret'.arg = ret.arg) =>
            ret'.val.bars = ret.val.bars
      ]_vars

-----------------------------------------------------------------------------
(* Properties of apply_risk_rules *)

\* the value of the rule's field in the metrics of the case, None when the field
\* is missing
FieldValue(rule) ==
    IF rule.field[1] = "technicals" /\ rule.field[2] \in DOMAIN rule_case.technicals
    THEN rule_case.technicals[rule.field[2]]
    ELSE IF rule.field[1] = "risk" /\ rule.field[2] \in DOMAIN rule_case.risk
    THEN rule_case.risk[rule.field[2]]
    ELSE NoneVal

\* `v op threshold`
Holds(rule) ==
    LET v == FieldValue(rule).float
    IN  \/ rule.op = "<=" /\ v <= rule.threshold
        \/ rule.op = "<" /\ v < rule.threshold
        \/ rule.op = ">=" /\ v >= rule.threshold
        \/ rule.op = ">" /\ v > rule.threshold
        \/ rule.op = "==" /\ v = rule.threshold

\* the positions of the table whose rule fires
Firing == {i \in 1..Len(rule_case.rules) :
              FieldValue(rule_case.rules[i]) # NoneVal /\ Holds(rule_case.rules[i])}

\* C35: an apply_risk_rules that returns has one flag for each rule of the table
\* whose field is there and not None and satisfies `v op threshold`, and no other
\* flag; the flags are in the order of their rules in the table; the evidence of a
\* flag holds the rule's field path, v and the threshold; and the result carries
\* RISK_RULES_VERSION.
C35_FlagsFollowRuleTable ==
    (ret.op = "apply_risk_rules" /\ ret.status = "ok") =>
        LET flags == ret.val.flags
        IN  /\ ret.val.rule_version = "risk_rules_v1"
            /\ Len(flags) = Cardinality(Firing)
            /\ \A n \in 1..Len(flags) :
                  \E i \in Firing :
                     /\ Cardinality({j \in Firing : j < i}) = n - 1
                     /\ flags[n].code = rule_case.rules[i].code
                     /\ flags[n].evidence.field = rule_case.rules[i].field
                     /\ flags[n].evidence.value = FieldValue(rule_case.rules[i]).float
                     /\ flags[n].evidence.threshold = rule_case.rules[i].threshold

\* RISK_RULES_V1 has been applied to metrics with a drawdown of -20%, no
\* volatility, a Sharpe ratio of 0 and a VaR of -20%: the first and the last rule
\* have fired
C35_Witness ==
    /\ ret.op = "apply_risk_rules"
    /\ ret.status = "ok"
    /\ Len(rule_case.rules) = 4
    /\ rule_case.technicals.volatility_20 = NoneVal
    /\ Len(ret.val.flags) = 2
    /\ ret.val.flags[1].code = "DRAWDOWN_HIGH"
    /\ ret.val.flags[1].evidence.value = -20
    /\ ret.val.flags[2].code = "VAR_TAIL_RISK"

-----------------------------------------------------------------------------
(* Properties of the durable copies of the checkpoints *)

\* C36: on a manager with a storage directory, a save_checkpoint whose write to
\* the directory fails raises and leaves the history without the new checkpoint,
\* and after every save_checkpoint each checkpoint of the histories has its file
\* in the directory.
C36_HistoryAndStoreAgree ==
    [][ (ret'.op = "save_checkpoint" /\ storage_backend = "dir") =>
          /\ ret'.status = "error" => checkpoints' = checkpoints
          /\ \A t \in DOMAIN checkpoints' :
                \A i \in 1..Len(checkpoints'[t]) :
                   SafeFileName(CheckpointId(t, StepIndexOf(checkpoints'[t][i])))
                       \in DOMAIN files'
      ]_vars

\* the (thread_id, step_index) pairs of the checkpoints in the histories
SavedPairs ==
    UNION {{<<t, StepIndexOf(checkpoints[t][i])>> : i \in 1..Len(checkpoints[t])} :
              t \in DOMAIN checkpoints}

\* C37: two checkpoints of different (thread_id, step_index) have different
\* checkpoint ids, cache keys and file names, whatever the thread ids are, those
\* that hold ":" or "__" included; and a load_checkpoint that returns, returns a
\* checkpoint of the thread and the step of the id it was given.
C37_DistinctCheckpointsDistinctNames ==
    /\ \A p \in SavedPairs, q \in SavedPairs :
          p # q =>
             /\ CheckpointId(p[1], p[2]) # CheckpointId(q[1], q[2])
             /\ CacheKey(CheckpointId(p[1], p[2])) # CacheKey(CheckpointId(q[1], q[2]))
             /\ SafeFileName(CheckpointId(p[1], p[2]))
                    # SafeFileName(CheckpointId(q[1], q[2]))
    /\ (ret.op = "load_checkpoint" /\ ret.status = "ok") =>
          CheckpointId(ret.val.state.thread_id, StepIndexOf(ret.val.state))
              = ret.arg.checkpoint_id

-----------------------------------------------------------------------------
(* Properties of the checkpoints of an analysis *)

\* the node names of the checkpoints of a complete analysis
AnalysisNodes ==
    <<"init", "identify", "fetch_market_data", "compute_metrics", "apply_rules",
      "snapshot_built", "llm_explain">>

\* C40: when analyze has returned on a thread that had no checkpoint when it
\* started, the history of the thread is the seven checkpoints init, identify,
\* fetch_market_data, compute_metrics, apply_rules, snapshot_built, llm_explain in
\* this order, their step_index strictly increasing (0 to 6 when no financials
\* were written), each holding what its update wrote: the first has no target, the
\* second has, and the last has the data fields of the active state.
C40_AnalysisCheckpointsInOrder ==
    (analysis.pc = "done" /\ analysis.fresh) =>
        LET history == History(current_state.thread_id)
        IN  /\ Len(history) = Len(AnalysisNodes)
            /\ \A i \in 1..Len(history) : NodeNameOf(history[i]) = AnalysisNodes[i]
            /\ \A i \in 1..(Len(history) - 1) :
                  StepIndexOf(history[i]) < StepIndexOf(history[i + 1])
            /\ ~analysis.financials =>
                  \A i \in 1..Len(history) : StepIndexOf(history[i]) = i - 1
            /\ history[1].target = NoneVal
            /\ history[2].target # NoneVal
            /\ history[6].messages = <<>>
            /\ \A f \in FieldNames \ {"snapshot_metadata"} :
                  history[Len(history)][f] = current_state[f]

\* the second analyze of an agent has returned, on thread t1 that the first did
\* not use, without financials: its last checkpoint is at step 6
C40_Witness ==
    /\ analysis.pc = "done"
    /\ analysis.fresh
    /\ analysis.runs = 2
    /\ ~analysis.financials
    /\ current_state.thread_id = T1
    /\ Len(History(T1)) = 7
    /\ StepIndexOf(History(T1)[7]) = 6

\* an analyze that wrote financials has returned on a fresh thread: its last
\* checkpoint is at step 7
C40_WitnessFinancials ==
    /\ analysis.pc = "done"
    /\ analysis.fresh
    /\ analysis.financials
    /\ StepIndexOf(History(current_state.thread_id)[7]) = 7

====
